---- MODULE Spec2Model ----
(***************************************************************************)
(* Model of the GeoPackage publishing pipeline of lm_geotorget.tiling:     *)
(* DataProcessor.process_order (processor.py), PostGISLoader.load_layer    *)
(* and its helpers (postgis_loader.py), detect_order_type (detector.py)    *)
(* and the batch reader of GeoPackageReader (gpkg_reader.py).              *)
(*                                                                         *)
(* The destination is one psycopg2 connection in its default               *)
(* (non-autocommit) mode: statements run inside a transaction that lasts   *)
(* until commit(); a statement that fails leaves the transaction aborted,  *)
(* and every later statement on the connection raises until the            *)
(* transaction is ended.  db.C is the committed state, db.W the state the  *)
(* connection sees (db.C plus its uncommitted statements).                 *)
(***************************************************************************)
EXTENDS Integers, Sequences, FiniteSets, TLC

\* ------------------------------------------------------------- bounds
MaxCalls == 2
MaxChanges == 1
MaxLoads == 2
\* load_layer's default batch_size, the one process_order uses
DefaultBatchSize == 1000

\* ------------------------------------------------------ names as text
\* A name is a sequence of one-character strings.
Lower(c) == CASE c = "A" -> "a" [] c = "B" -> "b" [] OTHER -> c

IsDigit(c) == c \in {"0", "1"}

IsWordChar(c) ==
    c \in {"a", "b", "d", "e", "g", "i", "n", "r", "s", "v", "w",
           "A", "B", "0", "1", "_"}

sanitize_name_lower(name) ==
    [i \in 1..Len(name) |-> Lower(name[i])]

\* PostGISLoader._sanitize_name
sanitize_name(name) ==
    LET low == sanitize_name_lower(name)
        sub == [i \in 1..Len(low) |-> IF IsWordChar(low[i]) THEN low[i] ELSE "_"]
    IN  IF Len(sub) > 0 /\ IsDigit(sub[1]) THEN <<"_">> \o sub ELSE sub

\* ------------------------------------------------------- containers
\* A feature's stored geometry: "ok" a well-formed GeoPackage Binary value
\* of a polygon (its envelope has an area), "point" a well-formed value of
\* the Point at one fixed position (the envelope of any number of them is
\* that Point), "short" a blob of fewer than 8 bytes (gpb_to_wkb raises ValueError in the
\* reader), "badwkb" a well-formed header around a truncated WKB payload
\* (ST_GeomFromWKB fails in the destination at the INSERT).
FeatureKinds == {"ok", "point", "short", "badwkb"}

La == <<"a">>
LA == <<"A">>
Lb == <<"b">>
Lab == <<"a", "b">>
LaB == <<"a", "B">>
LAb == <<"A", "b">>

\* The container files of the model, by content.  id is the content's
\* identity: two files have the same bytes exactly when they have the same
\* id.  sqlite says whether the bytes are a readable GeoPackage.  SQLite
\* takes table names without regard to case, so the names aB and Ab of
\* container 6 are two rows of its catalog that read one table.
Containers ==
    { [id |-> 1, sqlite |-> TRUE,
       layers |-> {[name |-> La, feats |-> <<"ok", "ok">>]}],
      [id |-> 2, sqlite |-> TRUE,
       layers |-> {[name |-> La, feats |-> <<"ok">>]}],
      [id |-> 3, sqlite |-> TRUE,
       layers |-> {[name |-> La, feats |-> <<"ok", "badwkb">>],
                   [name |-> Lb, feats |-> <<"point">>]}],
      [id |-> 4, sqlite |-> TRUE,
       layers |-> {[name |-> LA, feats |-> <<"ok", "short", "ok">>],
                   [name |-> Lb, feats |-> <<"ok", "ok", "ok">>]}],
      [id |-> 5, sqlite |-> FALSE, layers |-> {}],
      [id |-> 6, sqlite |-> TRUE,
       layers |-> {[name |-> LaB, feats |-> <<"ok">>],
                   [name |-> LAb, feats |-> <<"ok">>],
                   [name |-> LA, feats |-> <<"ok">>]}],
      [id |-> 7, sqlite |-> TRUE, layers |-> {}] }

ContainerIds == {c.id : c \in Containers}

ContainerOf(id) == CHOOSE c \in Containers : c.id = id

LayerNames == {La, LA, Lb, Lab}

\* PostGISLoader._file_hash: SHA-256 of the file's bytes, taken as
\* collision-free: the digest of a content is the content's identity.
file_hash(cid) == cid

\* byte order of two characters / lexicographic order of two names
\* (SQLite's BINARY collation, used by ORDER BY table_name)
Code(c) == CASE c = "0" -> 48 [] c = "1" -> 49 [] c = "A" -> 65 [] c = "B" -> 66
             [] c = "_" -> 95 [] c = "a" -> 97 [] c = "b" -> 98 [] OTHER -> 45

RECURSIVE NameLess(_, _)
NameLess(x, y) ==
    IF Len(x) = 0 THEN Len(y) > 0
    ELSE IF Len(y) = 0 THEN FALSE
    ELSE IF Code(x[1]) # Code(y[1]) THEN Code(x[1]) < Code(y[1])
    ELSE NameLess(Tail(x), Tail(y))

RECURSIVE SetToSortedSeq(_)
SetToSortedSeq(S) ==
    IF S = {} THEN <<>>
    ELSE LET m == CHOOSE x \in S : \A y \in S \ {x} : NameLess(x, y)
         IN  <<m>> \o SetToSortedSeq(S \ {m})

\* GeoPackageReader.list_layers: catalog names, ORDER BY table_name
list_layers(c) == SetToSortedSeq({l.name : l \in c.layers})

LayerOf(c, name) == CHOOSE l \in c.layers : l.name = name

\* --------------------------------------------------- the destination
OrderIds == {"o1", "o2"}
NoOrder == "none"

TableNames == {sanitize_name(n) : n \in LayerNames}

NoTable == [exists |-> FALSE, rows |-> <<>>, index |-> FALSE]

NoRec == [exists |-> FALSE, hash |-> 0, table |-> <<>>, count |-> 0]

MetaKeys == OrderIds \X LayerNames

\* An empty database: no schema, no _metadata table, no feature table.
\* schema: the loader's schema exists; boot: the spatial extension, the
\* schema and the _metadata table all exist.  The statements of the loader
\* need the three together or none of them, so their outcome hangs on boot.
EmptyData ==
    [boot |-> FALSE, schema |-> FALSE,
     tables |-> [t \in TableNames |-> NoTable],
     meta |-> [k \in MetaKeys |-> NoRec]]

\* PostGISLoader.__init__: no connection yet.  up: the server accepts
\* connections.
\* collate: the collation of the destination database, which ORDER BY on a
\* TEXT column follows: "C" compares code points, "linguistic" (en_US.UTF-8
\* and the like) compares letters first and case second, lower case first.
Collations == {"C", "linguistic"}

NewDb(up) ==
    [up |-> up, collate |-> "C", conn |-> FALSE, txn |-> "idle",
     C |-> EmptyData, W |-> EmptyData]

\* An execution context: the connection, the exception raised so far ("" for
\* none), the commits issued so far and load_layer's feature_count.
Ctx(db) == [db |-> db, err |-> "", listed |-> <<>>, log |-> <<>>, n |-> 0]

Raise(x, e) == [x EXCEPT !.err = e]

\* an exception whose message lists layer names
RaiseListing(x, e, names) == [x EXCEPT !.err = e, !.listed = names]

\* PostGISLoader._get_conn
get_conn(x) ==
    IF x.err # "" \/ x.db.conn THEN x
    ELSE IF x.db.up
         THEN [x EXCEPT !.db.conn = TRUE, !.db.txn = "idle", !.db.W = x.db.C]
         ELSE Raise(x, "OperationalError")

\* cursor.execute of a statement that succeeds and leaves the connection
\* seeing data W2 (W2 = the current data for a query)
Execute(x, W2) ==
    IF x.err # "" THEN x
    ELSE IF x.db.txn = "aborted" THEN Raise(x, "InFailedSqlTransaction")
    ELSE [x EXCEPT !.db.txn = "open", !.db.W = W2]

\* cursor.execute of a statement the server rejects
ExecuteError(x) ==
    IF x.err # "" THEN x
    ELSE IF x.db.txn = "aborted" THEN Raise(x, "InFailedSqlTransaction")
    ELSE [x EXCEPT !.db.txn = "aborted", !.err = "DatabaseError"]

\* connection.commit(): ends the transaction; an aborted one is rolled back
commit(x, stage) ==
    IF x.err # "" THEN x
    ELSE LET data == IF x.db.txn = "aborted" THEN x.db.C ELSE x.db.W
         IN  [x EXCEPT !.db.txn = "idle", !.db.C = data, !.db.W = data,
                       !.log = Append(x.log, [stage |-> stage, data |-> data])]

\* PostGISLoader.close
close(db) == [db EXCEPT !.conn = FALSE, !.txn = "idle", !.W = db.C]

\* init_database creating the metadata table anew
init_database_recreate(x0) ==
    LET x1 == get_conn(x0)
        x2 == IF x1.err # "" THEN x1
              ELSE Execute(x1, [x1.db.W EXCEPT !.boot = TRUE, !.schema = TRUE,
                                               !.meta = [k \in MetaKeys |-> NoRec]])
    IN  commit(x2, "init")

\* PostGISLoader.init_database
init_database(x0) ==
    LET x1 == get_conn(x0)
        x2 == IF x1.err # "" THEN x1
              ELSE Execute(x1, [x1.db.W EXCEPT !.boot = TRUE, !.schema = TRUE])
    IN  commit(x2, "init")

\* the schema_name arguments of create_schema: none, or another schema's
SchemaNames == {"", "other"}

\* PostGISLoader.create_schema: CREATE SCHEMA IF NOT EXISTS on the loader's
\* schema when no name is given, and a commit
create_schema(x0, schema_name) ==
    LET x1 == get_conn(x0)
        x2 == IF x1.err # "" THEN x1
              ELSE IF schema_name = "" THEN Execute(x1, [x1.db.W EXCEPT !.schema = TRUE])
              ELSE Execute(x1, x1.db.W)
    IN  commit(x2, "schema")

\* PostGISLoader._table_exists
table_exists(x, t) == x.db.W.boot /\ x.db.W.tables[t].exists

\* the query of _table_exists, as a statement on the connection
table_exists_query(x) == Execute(get_conn(x), x.db.W)

\* PostGISLoader._drop_table
drop_table(x0, t) ==
    LET x1 == get_conn(x0)
        x2 == IF x1.err # "" THEN x1
              ELSE Execute(x1, [x1.db.W EXCEPT !.tables[t] = NoTable])
    IN  commit(x2, "drop")

\* PostGISLoader._create_table: CREATE TABLE fails without the schema
create_table(x0, t) ==
    LET x1 == get_conn(x0)
        x2 == IF x1.err # "" THEN x1
              ELSE IF x1.db.W.boot /\ ~x1.db.W.tables[t].exists
              THEN Execute(x1, [x1.db.W EXCEPT
                        !.tables[t] = [exists |-> TRUE, rows |-> <<>>, index |-> FALSE]])
              ELSE ExecuteError(x1)
    IN  commit(x2, "create")

\* ------------------------------------------------------- the reader
\* indices lo..hi cut into batches of n, the last one possibly shorter
RECURSIVE Chunks(_, _, _)
Chunks(lo, hi, n) ==
    IF lo > hi THEN <<>>
    ELSE LET top == IF lo + n - 1 < hi THEN lo + n - 1 ELSE hi
         IN  <<[i \in 1..(top - lo + 1) |-> lo + i - 1]>> \o Chunks(top + 1, hi, n)

\* GeoPackageReader.read_layer: the features yielded before the generator
\* ends or raises (gpb_to_wkb raises ValueError on a blob under 8 bytes)
read_layer(feats) ==
    LET bad == {k \in 1..Len(feats) : feats[k] = "short"}
        stop == IF bad = {} THEN Len(feats) + 1
                ELSE CHOOSE k \in bad : \A j \in bad : k <= j
    IN  [yielded |-> stop - 1, raised |-> bad # {}]

\* read_layer_as_wkb_list without the batch left over when read_layer ends
read_layer_as_wkb_list_full_only(feats, batch_size) ==
    [batches |-> Chunks(1, batch_size * (read_layer(feats).yielded \div batch_size),
                        batch_size),
     raised |-> read_layer(feats).raised]

\* GeoPackageReader.read_layer_as_wkb_list: the batches yielded, each a
\* sequence of feature positions; a batch is yielded when it is full or when
\* read_layer ends, so the features gathered when read_layer raises are lost
read_layer_as_wkb_list(feats, batch_size) ==
    LET r == read_layer(feats)
        full == batch_size * (r.yielded \div batch_size)
    IN  [batches |-> IF r.raised THEN Chunks(1, full, batch_size)
                     ELSE Chunks(1, r.yielded, batch_size),
         raised |-> r.raised]

\* PostGISLoader._insert_batch: one INSERT per feature of the batch; the
\* destination rejects a geometry that is not well-formed WKB
RECURSIVE insert_batch(_, _, _, _, _)
insert_batch(x, t, batch, src, order_id) ==
    IF x.err # "" \/ batch = <<>> THEN x
    ELSE LET k == Head(batch)
             row == [order |-> order_id, src |-> src.id, layer |-> src.layer, k |-> k]
             y == IF src.feats[k] = "badwkb" \/ ~table_exists(x, t)
                  THEN ExecuteError(x)
                  ELSE Execute(x, [x.db.W EXCEPT
                           !.tables[t].rows = Append(@, row)])
         IN  insert_batch(y, t, Tail(batch), src, order_id)

\* insert_batches with a commit after every batch
RECURSIVE insert_batches_committing(_, _, _, _, _)
insert_batches_committing(x, t, batches, src, order_id) ==
    IF x.err # "" \/ batches = <<>> THEN x
    ELSE LET y == insert_batch(get_conn(x), t, Head(batches), src, order_id)
             z == IF y.err # "" THEN y ELSE [y EXCEPT !.n = @ + Len(Head(batches))]
         IN  insert_batches_committing(commit(z, "rows"), t, Tail(batches), src, order_id)

\* load_layer's loop over the batches (lines 225-235): x.n is feature_count
RECURSIVE insert_batches(_, _, _, _, _)
insert_batches(x, t, batches, src, order_id) ==
    IF x.err # "" \/ batches = <<>> THEN x
    ELSE LET y == insert_batch(get_conn(x), t, Head(batches), src, order_id)
             z == IF y.err # "" THEN y ELSE [y EXCEPT !.n = @ + Len(Head(batches))]
         IN  insert_batches(z, t, Tail(batches), src, order_id)

\* PostGISLoader._create_spatial_index
create_spatial_index(x0, t) ==
    LET x1 == get_conn(x0)
        x2 == IF x1.err # "" THEN x1
              ELSE IF table_exists(x1, t)
              THEN Execute(x1, [x1.db.W EXCEPT !.tables[t].index = TRUE])
              ELSE ExecuteError(x1)
    IN  commit(x2, "index")

\* _update_metadata lines 428-433 and postgis_loader.py line 136:
\* ST_Envelope(ST_Collect(geom)) over the rows of the table is NULL for no
\* row, a Point when every row is the one Point and a Polygon otherwise; the
\* bbox column takes NULL and Polygons only
bbox_accepted(rows) ==
    \/ rows = <<>>
    \/ \E i \in 1..Len(rows) :
          LayerOf(ContainerOf(rows[i].src), rows[i].layer).feats[rows[i].k] # "point"

\* _update_metadata recording the number of rows of the table
update_metadata_row_count(x0, order_id, t, layer_name, feature_count, cid) ==
    LET x1 == get_conn(x0)
        x2 == IF x1.err # "" THEN x1
              ELSE IF table_exists(x1, t) /\ bbox_accepted(x1.db.W.tables[t].rows)
              THEN Execute(x1, [x1.db.W EXCEPT !.meta[<<order_id, layer_name>>] =
                                   [exists |-> TRUE, hash |-> file_hash(cid), table |-> t,
                                    count |-> Len(x1.db.W.tables[t].rows)]])
              ELSE ExecuteError(x1)
    IN  commit(x2, "meta")

\* PostGISLoader._update_metadata: the envelope of the table is queried and
\* the record upserted on (order_id, layer_name); the statements fail when
\* the table does not exist or the bbox column refuses the envelope
update_metadata(x0, order_id, t, layer_name, feature_count, cid) ==
    LET x1 == get_conn(x0)
        source_hash == file_hash(cid)
        rec == [exists |-> TRUE, hash |-> source_hash, table |-> t,
                count |-> feature_count]
        x2 == IF x1.err # "" THEN x1
              ELSE IF table_exists(x1, t) /\ bbox_accepted(x1.db.W.tables[t].rows)
              THEN Execute(x1, [x1.db.W EXCEPT !.meta[<<order_id, layer_name>>] = rec])
              ELSE ExecuteError(x1)
    IN  commit(x2, "meta")

\* ------------------------------------------------------- load_layer
Policies == {"replace", "append", "fail"}

\* resolve_layer taking the first of several case-insensitive matches
resolve_layer_first_match(actual_layers, layer_name) ==
    LET matches == SelectSeq(actual_layers,
                     LAMBDA l : sanitize_name_lower(l) = sanitize_name_lower(layer_name))
    IN  IF \E i \in 1..Len(actual_layers) : actual_layers[i] = layer_name
        THEN [ok |-> TRUE, layer |-> layer_name, listed |-> <<>>]
        ELSE IF Len(actual_layers) = 1
        THEN [ok |-> TRUE, layer |-> actual_layers[1], listed |-> <<>>]
        ELSE IF Len(matches) >= 1
        THEN [ok |-> TRUE, layer |-> matches[1], listed |-> <<>>]
        ELSE [ok |-> FALSE, layer |-> <<>>, listed |-> actual_layers]

\* load_layer lines 187-204: the catalog layer a requested name stands for
resolve_layer(actual_layers, layer_name) ==
    LET matches == SelectSeq(actual_layers,
                     LAMBDA l : sanitize_name_lower(l) = sanitize_name_lower(layer_name))
    IN  IF \E i \in 1..Len(actual_layers) : actual_layers[i] = layer_name
        THEN [ok |-> TRUE, layer |-> layer_name, listed |-> <<>>]
        ELSE IF Len(actual_layers) = 1
        THEN [ok |-> TRUE, layer |-> actual_layers[1], listed |-> <<>>]
        ELSE IF Len(actual_layers) = 0
        THEN [ok |-> FALSE, layer |-> <<>>, listed |-> <<>>]
        ELSE IF Len(matches) = 1
        THEN [ok |-> TRUE, layer |-> matches[1], listed |-> <<>>]
        ELSE [ok |-> FALSE, layer |-> <<>>, listed |-> actual_layers]

\* handle_existing without the drop under "replace"
handle_existing_keep(x, t, if_exists) ==
    IF x.err # "" \/ if_exists # "fail" THEN x
    ELSE LET y == table_exists_query(x)
         IN  IF y.err = "" /\ table_exists(y, t) THEN Raise(y, "ValueError") ELSE y

\* load_layer lines 212-218: what if_exists does to an existing table
handle_existing(x, t, if_exists) ==
    IF x.err # "" THEN x
    ELSE IF if_exists = "replace" THEN drop_table(x, t)
    ELSE IF if_exists = "fail"
    THEN LET y == table_exists_query(x)
         IN  IF y.err = "" /\ table_exists(y, t) THEN Raise(y, "ValueError") ELSE y
    ELSE x

\* load_layer lines 220-222
create_if_needed(x, t) ==
    LET y == table_exists_query(x)
    IN  IF x.err # "" THEN x
        ELSE IF y.err = "" /\ ~table_exists(y, t) THEN create_table(y, t) ELSE y

\* load_layer lines 224-237: the batches, then the commit of the rows
load_features(x, t, src, order_id, batch_size) ==
    LET r == read_layer_as_wkb_list(src.feats, batch_size)
        y == insert_batches(x, t, r.batches, src, order_id)
        z == IF y.err = "" /\ r.raised THEN Raise(y, "ValueError") ELSE y
    IN  IF x.err # "" THEN x ELSE commit(z, "rows")

\* load_layer lines 239-251
finish_load(x, t, order_id, layer_name, cid) ==
    LET y == create_spatial_index(x, t)
    IN  IF x.err # "" THEN x
        ELSE IF y.err = "" /\ order_id # NoOrder
        THEN update_metadata(y, order_id, t, layer_name, y.n, cid)
        ELSE y

\* load_layer lines 181-205: the container is opened and the layer resolved,
\* then the connection is taken
open_source(x0, file, c, r) ==
    IF ~file.exists THEN Raise(x0, "FileNotFoundError")
    ELSE IF ~c.sqlite THEN Raise(x0, "sqlite3.DatabaseError")
    ELSE IF ~r.ok THEN RaiseListing(x0, "ValueError", r.listed)
    ELSE get_conn(x0)

\* the layer read by the load: container, resolved name and features
source_of(c, r) == [id |-> c.id, layer |-> r.layer, feats |-> LayerOf(c, r.layer).feats]

\* load_layer lines 253-271: the LoadResult returned, by the try body or by
\* the except clause, with the connection and the commits issued
load_result(x, t, layer_name) ==
    [db |-> x.db,
     log |-> x.log,
     res |-> [table |-> t, layer |-> layer_name,
              count |-> IF x.err = "" THEN x.n ELSE 0,
              success |-> x.err = "", error |-> x.err, listed |-> x.listed]]

\* PostGISLoader.load_layer.  file: whether gpkg_path exists and the content
\* it holds.  The result is the connection afterwards, the LoadResult and
\* the commits the call issued.  Every stage passes on an exception raised
\* by an earlier one.
load_layer(db, file, layer_name, if_exists, order_id, batch_size) ==
    LET t == sanitize_name(layer_name)
        c == ContainerOf(file.cid)
        r == resolve_layer(list_layers(c), layer_name)
    IN  load_result(
            finish_load(
                load_features(
                    create_if_needed(
                        handle_existing(open_source(Ctx(db), file, c, r), t, if_exists),
                        t),
                    t, source_of(c, r), order_id, batch_size),
                t, order_id, layer_name, file.cid),
            t, layer_name)

\* is_layer_current without the comparison of the hashes
is_layer_current_any_hash(db, cid, layer_name, order_id) ==
    LET x1 == get_conn(Ctx(db))
        x2 == IF x1.err # "" THEN x1
              ELSE IF x1.db.W.boot THEN Execute(x1, x1.db.W)
              ELSE ExecuteError(x1)
        row == x2.db.W.meta[<<order_id, layer_name>>]
    IN  [db |-> x2.db, err |-> x2.err, current |-> x2.err = "" /\ row.exists]

\* PostGISLoader.is_layer_current: db is the connection afterwards, err the
\* exception raised ("" for none), current the value returned
is_layer_current(db, cid, layer_name, order_id) ==
    LET x1 == get_conn(Ctx(db))
        current_hash == file_hash(cid)
        x2 == IF x1.err # "" THEN x1
              ELSE IF x1.db.W.boot THEN Execute(x1, x1.db.W)
              ELSE ExecuteError(x1)
        row == x2.db.W.meta[<<order_id, layer_name>>]
    IN  [db |-> x2.db, err |-> x2.err,
         current |-> x2.err = "" /\ row.exists /\ row.hash = current_hash]

\* ---------------------------------------------------- order directories
\* An archive entry: inner_path = stem + ext (ext as Path.suffix.lower()
\* gives it); crc: the entry's data reads back without a zip error; cid: the
\* content of the entry once extracted.
Entry(path, stem, ext, crc, cid) ==
    [path |-> path, stem |-> stem, ext |-> ext, crc |-> crc, cid |-> cid]

\* A top-level *.zip file: zip says whether it is a well-formed archive.
Archive(name, zip, entries) == [name |-> name, zip |-> zip, entries |-> entries]

\* The sidecar uttag.json: for each of the four keys _determine_type reads,
\* in the order it reads them, whether the key is present and which product
\* words its value contains.
NoKey == [present |-> FALSE, words |-> {}]

Key(words) == [present |-> TRUE, words |-> words]

NoMetadata == <<NoKey, NoKey, NoKey, NoKey>>

\* An order path: kind "absent", "file" (exists, not a directory) or "dir";
\* index: the numeric-pair-named files of the directory, each "tiles" (a JSON
\* array with .laz titles), "notjson" or "badtitle" (an entry whose title is
\* not a string).
Dir(metadata, index, archives) ==
    [kind |-> "dir", metadata |-> metadata, index |-> index, archives |-> archives]

AbsentDir == [kind |-> "absent", metadata |-> NoMetadata, index |-> <<>>, archives |-> <<>>]

FileNotDir == [kind |-> "file", metadata |-> NoMetadata, index |-> <<>>, archives |-> <<>>]

Sa == <<"a">>
Sb == <<"b">>
SaSverige == <<"a", "_", "s", "v", "e", "r", "i", "g", "e">>

Gpkg(path, stem, cid) == Entry(path, stem, ".gpkg", TRUE, cid)

OrderDirs ==
    { AbsentDir,
      FileNotDir,
      Dir(NoMetadata, <<>>, <<Archive("z1", TRUE, <<Gpkg("p1", Sa, 1)>>)>>),
      Dir(NoMetadata, <<>>, <<Archive("z1", TRUE, <<Gpkg("p1", SaSverige, 2)>>)>>),
      Dir(NoMetadata, <<>>, <<Archive("z1", TRUE, <<Gpkg("p1", Sa, 3)>>)>>),
      Dir(NoMetadata, <<>>, <<Archive("z1", TRUE, <<Gpkg("p1", Sb, 4)>>)>>),
      Dir(NoMetadata, <<>>, <<Archive("z1", TRUE, <<Gpkg("p1", Sa, 1)>>),
                              Archive("z2", TRUE, <<Gpkg("p2", Sb, 2)>>)>>),
      Dir(NoMetadata, <<>>, <<Archive("z1", TRUE, <<Gpkg("p1", Sa, 5),
                                                    Gpkg("p2", Sb, 2)>>)>>),
      Dir(NoMetadata, <<>>, <<Archive("z1", TRUE,
                                <<Entry("p1", Sa, ".gpkg", FALSE, 1)>>)>>),
      Dir(NoMetadata, <<>>, <<Archive("z0", FALSE, <<>>),
                              Archive("z1", TRUE, <<Gpkg("p1", Sa, 2),
                                                    Entry("p2", Sb, ".laz", TRUE, 5),
                                                    Entry("p3", Sb, ".laz", TRUE, 5)>>)>>),
      Dir(<<NoKey, Key({"ortofoto"}), NoKey, NoKey>>, <<>>,
          <<Archive("z1", TRUE, <<Entry("p1", Sa, ".tif", TRUE, 5),
                                  Entry("p2", Sb, ".txt", TRUE, 5)>>)>>),
      Dir(NoMetadata, <<"notjson", "tiles">>, <<>>),
      Dir(NoMetadata, <<"badtitle">>, <<>>) }

\* ------------------------------------------------------------ detector
\* detector.EXTENSION_MAP; "" for an extension it does not hold
EXTENSION_MAP(ext) ==
    CASE ext = ".gpkg" -> "vector_gpkg"
      [] ext = ".laz" -> "lidar_laz"
      [] ext = ".las" -> "lidar_laz"
      [] ext = ".tif" -> "raster_dem"
      [] ext = ".tiff" -> "raster_dem"
      [] ext = ".jp2" -> "raster_ortho"
      [] OTHER -> ""

\* detector.PRODUCT_TYPE_MAP, in its iteration order
PRODUCT_TYPE_MAP ==
    << <<"topografi", "vector_gpkg">>, <<"administrativ", "vector_gpkg">>,
       <<"fastighet", "vector_gpkg">>, <<"hojddata", "raster_dem">>,
       <<"hojdmodell", "raster_dem">>, <<"laserdata", "lidar_laz">>,
       <<"ortofoto", "raster_ortho">> >>

\* A Python dict as the sequence of its (key, value) pairs in insertion order.
DictHas(d, k) == \E i \in 1..Len(d) : d[i][1] = k

DictGet(d, k) == d[CHOOSE i \in 1..Len(d) : d[i][1] = k][2]

DictSet(d, k, v) ==
    IF DictHas(d, k) THEN [i \in 1..Len(d) |-> IF d[i][1] = k THEN <<k, v>> ELSE d[i]]
    ELSE Append(d, <<k, v>>)

DictPop(d, k) == SelectSeq(d, LAMBDA p : p[1] # k)

\* _determine_type lines 241-246: the tally of the mapped extensions
RECURSIVE count_types(_, _)
count_types(files, counts) ==
    IF files = <<>> THEN counts
    ELSE LET dtype == EXTENSION_MAP(Head(files).ext)
         IN  count_types(Tail(files),
                IF dtype = "" THEN counts
                ELSE DictSet(counts, dtype,
                        IF DictHas(counts, dtype) THEN DictGet(counts, dtype) + 1 ELSE 1))

\* _determine_type lines 255-258: the first product word a value contains
hint_of_value(words) ==
    LET hits == {i \in 1..Len(PRODUCT_TYPE_MAP) : PRODUCT_TYPE_MAP[i][1] \in words}
    IN  IF hits = {} THEN ""
        ELSE PRODUCT_TYPE_MAP[CHOOSE i \in hits : \A j \in hits : i <= j][2]

\* _determine_type lines 249-258: the hint of the last key that gives one
RECURSIVE product_hint_of(_, _)
product_hint_of(metadata, hint) ==
    IF metadata = <<>> THEN hint
    ELSE LET m == Head(metadata)
             h == IF m.present THEN hint_of_value(m.words) ELSE ""
         IN  product_hint_of(Tail(metadata), IF h = "" THEN hint ELSE h)

\* max(type_counts.keys(), key=...): the first key holding the largest count
max_key(counts) ==
    LET i == CHOOSE i \in 1..Len(counts) :
                 /\ \A j \in 1..Len(counts) : counts[j][2] <= counts[i][2]
                 /\ \A j \in 1..(i - 1) : counts[j][2] < counts[i][2]
    IN  counts[i][1]

\* detector._determine_type
determine_type(files, metadata) ==
    LET type_counts == count_types(files, <<>>)
        product_hint == product_hint_of(metadata, "")
        counts == IF DictHas(type_counts, "raster_dem") /\ product_hint = "raster_ortho"
                  THEN DictSet(DictPop(type_counts, "raster_dem"), "raster_ortho",
                               DictGet(type_counts, "raster_dem"))
                  ELSE type_counts
    IN  IF counts # <<>> THEN max_key(counts)
        ELSE IF product_hint # "" THEN product_hint
        ELSE "unknown"

\* detect_order_type lines 127-144: the entries of every readable archive
RECURSIVE scan_archives(_)
scan_archives(archives) ==
    IF archives = <<>> THEN <<>>
    ELSE LET a == Head(archives)
             files == IF a.zip
                      THEN [i \in 1..Len(a.entries) |->
                               [zip_name |-> a.name, inner_path |-> a.entries[i].path,
                                stem |-> a.entries[i].stem, ext |-> a.entries[i].ext]]
                      ELSE <<>>
         IN  files \o scan_archives(Tail(archives))

\* _extract_gpkg_layers lines 298-324, one archive: the layer names read from
\* its .gpkg entries, in order, up to the first entry that raises
\* (BadZipFile on a bad CRC, sqlite3.Error on a file that is no GeoPackage);
\* the except clause then leaves the archive
RECURSIVE entry_layers(_)
entry_layers(entries) ==
    IF entries = <<>> THEN {}
    ELSE LET e == Head(entries)
         IN  IF e.ext # ".gpkg" THEN entry_layers(Tail(entries))
             ELSE IF ~e.crc \/ ~ContainerOf(e.cid).sqlite THEN {}
             ELSE {l.name : l \in ContainerOf(e.cid).layers}
                  \cup entry_layers(Tail(entries))

\* detector._extract_gpkg_layers: sorted(set(layers)) over the archives that
\* were scanned
extract_gpkg_layers(archives) ==
    SetToSortedSeq(UNION {entry_layers(archives[i].entries) :
                             i \in {j \in 1..Len(archives) : archives[j].zip}})

\* detector._detect_lidar_index: raised when the path is no directory or an
\* entry's title is not a string; tiles: some tile was found
detect_lidar_index(dir) ==
    [raised |-> dir.kind # "dir" \/ \E i \in 1..Len(dir.index) : dir.index[i] = "badtitle",
     tiles |-> \E i \in 1..Len(dir.index) : dir.index[i] = "tiles"]

\* what detect_order_type returns once the index files and the archives are
\* read (lines 115-161)
detected_order(idx, files, data_type, archives) ==
    IF idx.raised
    THEN [raised |-> TRUE, data_type |-> "unknown", files |-> <<>>, layers |-> <<>>]
    ELSE IF idx.tiles
    THEN [raised |-> FALSE, data_type |-> "lidar_index", files |-> <<>>, layers |-> <<>>]
    ELSE [raised |-> FALSE, data_type |-> data_type, files |-> files,
          layers |-> IF data_type = "vector_gpkg"
                     THEN extract_gpkg_layers(archives) ELSE <<>>]

\* detect_order_type reading the archives before the index files
detect_order_type_archives_first(dir) ==
    detected_order(IF dir.kind = "dir" /\ dir.archives # <<>>
                   THEN [raised |-> FALSE, tiles |-> FALSE]
                   ELSE detect_lidar_index(dir),
                   scan_archives(dir.archives),
                   determine_type(scan_archives(dir.archives), dir.metadata),
                   dir.archives)

\* detector.detect_order_type (order_id, total_size and metadata left out)
detect_order_type(dir) ==
    detected_order(detect_lidar_index(dir),
                   scan_archives(dir.archives),
                   determine_type(scan_archives(dir.archives), dir.metadata),
                   dir.archives)

\* is_publishable letting every recognised type through
is_publishable_any(data_type) == data_type # "unknown"

\* detector.is_publishable
is_publishable(data_type) == data_type = "vector_gpkg"

\* ----------------------------------------------------------- processor
InSeq(x, sq) == \E i \in 1..Len(sq) : sq[i] = x

EndsWith(name, suffix) ==
    /\ Len(name) >= Len(suffix)
    /\ SubSeq(name, Len(name) - Len(suffix) + 1, Len(name)) = suffix

\* the stem taken as it is
stem_layer_name_whole(stem) == stem

\* _find_gpkg_files lines 228-232: the stem without a trailing _sverige or
\* _sweden
stem_layer_name(stem) ==
    LET sverige == <<"_", "s", "v", "e", "r", "i", "g", "e">>
        sweden == <<"_", "s", "w", "e", "d", "e", "n">>
    IN  IF EndsWith(stem, sverige) THEN SubSeq(stem, 1, Len(stem) - Len(sverige))
        ELSE IF EndsWith(stem, sweden) THEN SubSeq(stem, 1, Len(stem) - Len(sweden))
        ELSE stem

\* DataProcessor._find_gpkg_files; layers = <<>> stands for None (and for an
\* empty list, which the code treats alike)
RECURSIVE find_gpkg_files(_, _)
find_gpkg_files(files, layers) ==
    IF files = <<>> THEN <<>>
    ELSE LET f == Head(files)
             layer_name == stem_layer_name(f.stem)
             keep == /\ f.ext = ".gpkg"
                     /\ (layers = <<>> \/ InSeq(layer_name, layers))
         IN  (IF keep THEN <<[zip_name |-> f.zip_name, inner_path |-> f.inner_path,
                               file_stem |-> layer_name]>> ELSE <<>>)
             \o find_gpkg_files(Tail(files), layers)

\* the archive entry a (zip_name, inner_path) pair names in an order directory
EntryAt(dir, zip_name, inner_path) ==
    LET a == dir.archives[CHOOSE i \in 1..Len(dir.archives) :
                              dir.archives[i].name = zip_name]
    IN  a.entries[CHOOSE i \in 1..Len(a.entries) : a.entries[i].path = inner_path]

\* DataProcessor._extract_gpkg, TempGpkg.__enter__: mkstemp creates the
\* transient file, then the entry is read from the archive; when the read
\* raises, __enter__ raises and the with statement never runs __exit__, so
\* the file stays.  leaked: the transient files left behind.
extract_gpkg(dir, zip_name, inner_path) ==
    LET e == EntryAt(dir, zip_name, inner_path)
    IN  [ok |-> e.crc, cid |-> e.cid, leaked |-> IF e.crc THEN 0 ELSE 1]

FailedResult(name, error) ==
    [table |-> name, layer |-> name, count |-> 0, success |-> FALSE, error |-> error,
     listed |-> <<>>]

\* process_order lines 137-157, the first pass: the worklist, the failures
\* recorded and the transient files left behind
RECURSIVE first_pass(_, _, _, _)
first_pass(dir, gpkg_files, layers, acc) ==
    IF gpkg_files = <<>> THEN acc
    ELSE LET g == Head(gpkg_files)
             x == extract_gpkg(dir, g.zip_name, g.inner_path)
             c == ContainerOf(x.cid)
             actual_layers == list_layers(c)
             wanted == SelectSeq(actual_layers,
                          LAMBDA l : layers = <<>> \/ InSeq(l, layers))
             triples == [i \in 1..Len(wanted) |->
                            [zip_name |-> g.zip_name, inner_path |-> g.inner_path,
                             layer_name |-> wanted[i]]]
             next == IF x.ok /\ c.sqlite
                     THEN [acc EXCEPT !.worklist = @ \o triples]
                     ELSE [acc EXCEPT
                             !.results = Append(@, FailedResult(g.file_stem, "Failed to read GPKG")),
                             !.leaked = @ + x.leaked]
         IN  first_pass(dir, Tail(gpkg_files), layers, next)

\* progress_callback called with the index of the loop as it is
progress_callback_args_from_zero(layers_to_process, i, total_layers) ==
    [layer_name |-> layers_to_process[i + 1].layer_name, current |-> i,
     total |-> total_layers]

\* process_order line 164: the arguments progress_callback is called with in
\* round i (from 0) of the loop over layers_to_process
progress_callback_args(layers_to_process, i, total_layers) ==
    [layer_name |-> layers_to_process[i + 1].layer_name, current |-> i + 1,
     total |-> total_layers]

\* process_order lines 176-185: load_layer's LoadResult is recorded
loaded_step(ld) ==
    [db |-> ld.db, emitted |-> <<ld.res>>,
     current |-> FALSE, loaded |-> TRUE, log |-> ld.log, leaked |-> 0]

\* process_order lines 171-195 once the container is extracted (content
\* cid): cur is what is_layer_current did
checked_step(cur, cid, order_id, t) ==
    IF cur.err # ""
    THEN [db |-> cur.db, emitted |-> <<FailedResult(t.layer_name, cur.err)>>,
          current |-> FALSE, loaded |-> FALSE, log |-> <<>>, leaked |-> 0]
    ELSE IF cur.current
    THEN [db |-> cur.db, emitted |-> <<>>,
          current |-> TRUE, loaded |-> FALSE, log |-> <<>>, leaked |-> 0]
    ELSE loaded_step(load_layer(cur.db, [exists |-> TRUE, cid |-> cid], t.layer_name,
                                "replace", order_id, DefaultBatchSize))

\* second_pass_step with an except clause that records nothing
second_pass_step_silent(db, dir, order_id, t) ==
    LET x == extract_gpkg(dir, t.zip_name, t.inner_path)
        cur == is_layer_current(db, x.cid, t.layer_name, order_id)
    IN  IF ~x.ok \/ cur.err # ""
        THEN [db |-> IF x.ok THEN cur.db ELSE db, emitted |-> <<>>,
              current |-> FALSE, loaded |-> FALSE, log |-> <<>>, leaked |-> x.leaked]
        ELSE checked_step(cur, x.cid, order_id, t)

\* process_order lines 162-195, one iteration of the second pass on
\* worklist entry t: the connection afterwards, the LoadResult appended (if
\* any), whether the layer was current, the commits of load_layer and the
\* transient files left behind.
second_pass_step(db, dir, order_id, t) ==
    LET x == extract_gpkg(dir, t.zip_name, t.inner_path)
    IN  IF ~x.ok
        THEN [db |-> db, emitted |-> <<FailedResult(t.layer_name, "BadZipFile")>>,
              current |-> FALSE, loaded |-> FALSE, log |-> <<>>, leaked |-> x.leaked]
        ELSE checked_step(is_layer_current(db, x.cid, t.layer_name, order_id),
                          x.cid, order_id, t)

\* any() where the code has all()
any_success(results) == \E i \in 1..Len(results) : results[i].success

\* all(r.success for r in layer_results) if layer_results else True
all_success(results) == \A i \in 1..Len(results) : results[i].success

\* process_order lines 197-208: the ProcessResult returned
process_result(data_type, results, total_features) ==
    [data_type |-> data_type, layers_processed |-> results,
     total_features |-> total_features,
     success |-> all_success(results),
     error |-> IF all_success(results) THEN "" ELSE "Some layers failed to load"]

\* process_order lines 108-125: the result of a call that fails fast
failed_result(data_type, error) ==
    [data_type |-> data_type, layers_processed |-> <<>>, total_features |-> 0,
     success |-> FALSE, error |-> error]

\* PostGISLoader.get_metadata (no order filter): the query on the
\* connection; the rows are the records of x.db.W.meta
get_metadata(x0) ==
    LET x1 == get_conn(x0)
    IN  IF x1.err # "" THEN x1
        ELSE IF x1.db.W.boot THEN Execute(x1, x1.db.W)
        ELSE ExecuteError(x1)

\* PostGISLoader.list_tables: the query on geometry_columns (a view of the
\* spatial extension), then a count per table; out is the TableInfo list
list_tables(x0) ==
    LET x1 == get_conn(x0)
        x2 == IF x1.err # "" THEN x1
              ELSE IF x1.db.W.boot THEN Execute(x1, x1.db.W)
              ELSE ExecuteError(x1)
        names == SetToSortedSeq({t \in TableNames : x2.db.W.tables[t].exists})
    IN  [db |-> x2.db, err |-> x2.err,
         out |-> IF x2.err # "" THEN <<>>
                 ELSE [i \in 1..Len(names) |->
                         [name |-> names[i],
                          feature_count |-> Len(x2.db.W.tables[names[i]].rows)]]]

\* get_table_stats with a commit before it returns
get_table_stats_committing(x0, table_name) ==
    LET x1 == get_conn(x0)
        x2 == IF x1.err # "" THEN x1
              ELSE IF table_exists(x1, table_name) THEN Execute(x1, x1.db.W)
              ELSE ExecuteError(x1)
        x3 == commit(x2, "stats")
    IN  [db |-> x3.db, err |-> x3.err,
         out |-> IF x3.err # "" THEN <<>>
                 ELSE <<[name |-> table_name,
                         feature_count |-> Len(x3.db.W.tables[table_name].rows)]>>]

\* PostGISLoader.get_table_stats: the count, extent, column and provenance
\* queries on the table, which fail when the table does not exist
get_table_stats(x0, table_name) ==
    LET x1 == get_conn(x0)
        x2 == IF x1.err # "" THEN x1
              ELSE IF table_exists(x1, table_name) THEN Execute(x1, x1.db.W)
              ELSE ExecuteError(x1)
    IN  [db |-> x2.db, err |-> x2.err,
         out |-> IF x2.err # "" THEN <<>>
                 ELSE <<[name |-> table_name,
                         feature_count |-> Len(x2.db.W.tables[table_name].rows)]>>]

\* get_status line 386: the sum of feature_count over the records
RECURSIVE SumCounts(_, _)
SumCounts(meta, keys) ==
    IF keys = {} THEN 0
    ELSE \* the sum does not depend on the order the records are taken in
         (LET k == CHOOSE j \in keys : TRUE
          IN  meta[k].count + SumCounts(meta, keys \ {k}))

\* DataProcessor.get_status: get_metadata, then list_tables; out is the
\* ProcessingStatus counted from what the two returned
get_status(x0) ==
    LET x1 == get_metadata(x0)
        x2 == IF x1.err # "" THEN [db |-> x1.db, err |-> x1.err, out |-> <<>>]
              ELSE list_tables([x1 EXCEPT !.err = ""])
        recorded == {k \in MetaKeys : x1.db.W.meta[k].exists}
    IN  [db |-> x2.db, err |-> x2.err,
         out |-> IF x2.err # "" THEN <<>>
                 ELSE <<[orders_processed |-> Cardinality({k[1] : k \in recorded}),
                         total_features |-> SumCounts(x1.db.W.meta, recorded),
                         total_tables |-> Len(x2.out)]>>]

\* connection.rollback(), in an except clause that swallows the exception
rollback(x) == [x EXCEPT !.err = "", !.db.txn = "idle", !.db.W = x.db.C]

\* the order of two names under the database's collation
CollateLess(collate, x, y) ==
    IF collate = "C" THEN NameLess(x, y)
    ELSE IF sanitize_name_lower(x) # sanitize_name_lower(y)
    THEN NameLess(sanitize_name_lower(x), sanitize_name_lower(y))
    ELSE NameLess(y, x)

\* ORDER BY order_id, layer_name (o1 sorts before o2 in every collation)
KeyLess(collate, k1, k2) ==
    \/ k1[1] = "o1" /\ k2[1] = "o2"
    \/ k1[1] = k2[1] /\ CollateLess(collate, k1[2], k2[2])

RECURSIVE SortedKeys(_, _)
SortedKeys(collate, S) ==
    IF S = {} THEN <<>>
    ELSE LET m == CHOOSE k \in S : \A j \in S \ {k} : KeyLess(collate, k, j)
         IN  <<m>> \o SortedKeys(collate, S \ {m})

\* process_incremental lines 343-355: some .gpkg file of the order has no
\* record under (order, the file's stem without _sverige or _sweden); the
\* recorded source_hash is not looked at
needs_update(order_id, files, dir, meta) ==
    \E i \in 1..Len(files) :
        /\ files[i].ext = ".gpkg"
        /\ \E key \in {<<order_id, stem_layer_name(files[i].stem)>>} :
               key \notin MetaKeys \/ ~meta[key].exists

\* process_incremental lines 336-358: the loop over order_dirs; acc.selected
\* is orders_to_process, acc.raised is set when detect_order_type raised
RECURSIVE orders_to_process(_, _, _, _)
orders_to_process(order_dirs, dirs, meta, acc) ==
    IF order_dirs = <<>> \/ acc.raised THEN acc
    ELSE orders_to_process(
             Tail(order_dirs), dirs, meta,
             [raised |-> detect_order_type(dirs[Head(order_dirs)]).raised,
              selected |->
                  IF /\ ~detect_order_type(dirs[Head(order_dirs)]).raised
                     /\ is_publishable(detect_order_type(dirs[Head(order_dirs)]).data_type)
                     /\ needs_update(Head(order_dirs),
                                     detect_order_type(dirs[Head(order_dirs)]).files,
                                     dirs[Head(order_dirs)], meta)
                  THEN Append(acc.selected, Head(order_dirs))
                  ELSE acc.selected])

\* process_incremental lines 331-334: downloads_dir.iterdir() gives the
\* directories in any order
OrderDirSeqs(dirs) ==
    {sq \in UNION {[1..n -> OrderIds] : n \in 0..Cardinality(OrderIds)} :
        /\ \A i, j \in 1..Len(sq) : sq[i] = sq[j] => i = j
        /\ {sq[i] : i \in 1..Len(sq)} = {o \in OrderIds : dirs[o].kind = "dir"}}

\* cleanup_stale_tables lines 406-416: the records of orders that have no
\* directory in downloads, in the order get_metadata returned them
stale_keys(collate, meta, dirs) ==
    SortedKeys(collate, {k \in MetaKeys : meta[k].exists /\ dirs[k[1]].kind # "dir"})

\* cleanup_loop deleting the records and leaving their tables
RECURSIVE cleanup_loop_keep_table(_, _, _)
cleanup_loop_keep_table(x, stale, removed) ==
    IF stale = <<>> THEN [db |-> x.db, err |-> x.err, out |-> removed]
    ELSE cleanup_loop_keep_table(
             commit(Execute(x, [x.db.W EXCEPT !.meta[Head(stale)] = NoRec]), "cleanup"),
             Tail(stale),
             Append(removed, x.db.W.meta[Head(stale)].table))

\* cleanup_stale_tables lines 419-437: per stale record, the table is
\* dropped and the record deleted in one transaction, and the table's name
\* is added to the returned list once that transaction is committed
RECURSIVE cleanup_loop(_, _, _)
cleanup_loop(x, stale, removed) ==
    IF stale = <<>> THEN [db |-> x.db, err |-> x.err, out |-> removed]
    ELSE LET k == Head(stale)
             y == Execute(x, [x.db.W EXCEPT !.tables[x.db.W.meta[k].table] = NoTable,
                                            !.meta[k] = NoRec])
         IN  IF y.err # ""
             THEN cleanup_loop(rollback(y), Tail(stale), removed)
             ELSE cleanup_loop(commit(y, "cleanup"), Tail(stale),
                               Append(removed, x.db.W.meta[k].table))

\* cleanup_stale_tables after get_metadata returned or raised
cleanup_from(x, dirs) ==
    IF x.err # "" THEN [db |-> x.db, err |-> x.err, out |-> <<>>]
    ELSE cleanup_loop(x, stale_keys(x.db.collate, x.db.W.meta, dirs), <<>>)

\* DataProcessor.cleanup_stale_tables
cleanup_stale_tables(db, dirs) == cleanup_from(get_metadata(Ctx(db)), dirs)

\* ------------------------------------------------------------- state
VARIABLES
    fs,        \* the downloads directory: order id -> order path
    db,        \* the loader's connection and the destination's data
    tmp,       \* transient extraction files that exist on disk
    pc,        \* process_order: "idle", "pass2", "done" (returned), "raised"
    call,      \* the locals of the process_order call in progress
    ret,       \* the ProcessResult of the call that returned
    start,     \* the connection and tmp when the call in progress began
    lastLoad,  \* the load_layer call made by the last step, if any
    lastCheck, \* the is_layer_current call made by the last step, if any
    clean,     \* per order: the last process_order of it succeeded and its
               \* directory has not changed since (and with which allowlist)
    ncalls, nchanges, nloads,
    arg,       \* the input of a function applied on its own
    val        \* the value it returned, once applied

vars == <<fs, db, tmp, pc, call, ret, start, lastLoad, lastCheck, clean, ncalls,
          nchanges, nloads, arg, val>>

Allowlists == {<<>>, <<La>>}

BatchSizes == {1, 2, DefaultBatchSize}

NoCall ==
    [order |-> NoOrder, layers |-> <<>>, data_type |-> "unknown", worklist |-> <<>>,
     i |-> 0, results |-> <<>>, total |-> 0, visits |-> <<>>, wasClean |-> FALSE,
     callback |-> FALSE, total_layers |-> 0, progress |-> <<>>]

NoRet == failed_result("unknown", "")

NoLoad ==
    [active |-> FALSE, cid |-> 0, order |-> NoOrder, table |-> <<>>, policy |-> "", expected |-> 0,
     beforeC |-> EmptyData, beforeW |-> EmptyData, log |-> <<>>,
     res |-> FailedResult(<<>>, "")]

NoStart == [db |-> NewDb(FALSE), tmp |-> 0]

NoArg == [kind |-> "none"]

NoVal == [done |-> FALSE]

\* what a call on the loader or the processor gave: the connection before it,
\* the exception it raised ("" for none) and the value it returned
Returned(op, before, err, out) ==
    [done |-> TRUE, op |-> op, before |-> before, err |-> err, out |-> out]

NoCheck ==
    [active |-> FALSE, cid |-> 0, layer |-> <<>>, order |-> NoOrder,
     before |-> NewDb(FALSE), err |-> "", current |-> FALSE]

NotClean == [ok |-> FALSE, layers |-> <<>>]

\* the order paths the second order starts from
SecondDirs ==
    { AbsentDir,
      Dir(NoMetadata, <<>>, <<Archive("z1", TRUE, <<Gpkg("p1", Sa, 1)>>)>>),
      Dir(NoMetadata, <<>>, <<Archive("z1", TRUE, <<Gpkg("p1", Sb, 4)>>)>>) }

Init ==
    /\ \E d1 \in OrderDirs, d2 \in SecondDirs :
          fs = [o \in OrderIds |-> IF o = "o1" THEN d1 ELSE d2]
    /\ \E up \in BOOLEAN, collate \in Collations :
          db = [NewDb(up) EXCEPT !.collate = collate]
    /\ tmp = 0
    /\ pc = "idle"
    /\ call = NoCall
    /\ ret = NoRet
    /\ start = NoStart
    /\ lastLoad = NoLoad
    /\ lastCheck = NoCheck
    /\ clean = [o \in OrderIds |-> NotClean]
    /\ ncalls = 0
    /\ nchanges = 0
    /\ nloads = 0
    /\ arg = NoArg
    /\ val = NoVal

\* what a load_layer call did, for the claims about its commits
LoadRecord(before, ld, cid, order_id, if_exists, expected) ==
    [active |-> TRUE, cid |-> cid, order |-> order_id, table |-> ld.res.table, policy |-> if_exists,
     expected |-> expected, beforeC |-> before.C, beforeW |-> before.W,
     log |-> ld.log, res |-> ld.res]

\* the number of features of the catalog layer a request resolves to
ExpectedCount(cid, layer_name) ==
    LET c == ContainerOf(cid)
        r == resolve_layer(list_layers(c), layer_name)
    IN  IF c.sqlite /\ r.ok THEN Len(LayerOf(c, r.layer).feats) ELSE 0

\* The caller runs init_database (bootstrap).
InitDatabase ==
    /\ pc = "idle"
    /\ arg.kind # "incremental"
    /\ \E x \in {init_database(Ctx(db))} :
           /\ db' = x.db
           /\ val' = Returned("init_database", db, x.err, <<>>)
    /\ lastLoad' = NoLoad
    /\ lastCheck' = NoCheck
    /\ UNCHANGED <<arg, fs, tmp, pc, call, ret, start, clean, ncalls, nchanges, nloads>>

\* A caller runs create_schema on the destination.
CreateSchema(schema_name) ==
    /\ pc = "idle"
    /\ arg.kind # "incremental"
    /\ db' = create_schema(Ctx(db), schema_name).db
    /\ val' = NoVal
    /\ lastLoad' = NoLoad
    /\ lastCheck' = NoCheck
    /\ UNCHANGED <<arg, fs, tmp, pc, call, ret, start, clean, ncalls, nchanges, nloads>>

\* The caller asks the processor for its status.
GetStatus ==
    /\ pc = "idle"
    /\ arg.kind # "incremental"
    /\ \E r \in {get_status(Ctx(db))} :
           /\ db' = r.db
           /\ val' = Returned("get_status", db, r.err, r.out)
    /\ lastLoad' = NoLoad
    /\ lastCheck' = NoCheck
    /\ UNCHANGED <<arg, fs, tmp, pc, call, ret, start, clean, ncalls, nchanges, nloads>>

\* The caller closes the processor (DataProcessor.close).
Close ==
    /\ pc = "idle"
    /\ db.conn
    /\ db' = close(db)
    /\ lastLoad' = NoLoad
    /\ lastCheck' = NoCheck
    /\ val' = NoVal
    /\ UNCHANGED <<arg, fs, tmp, pc, call, ret, start, clean, ncalls, nchanges, nloads>>

\* The environment replaces, removes or creates an order path.
ChangeDir(o, d) ==
    /\ pc = "idle"
    /\ arg.kind # "incremental"
    /\ nchanges < MaxChanges
    /\ d # fs[o]
    /\ fs' = [fs EXCEPT ![o] = d]
    /\ clean' = [clean EXCEPT ![o] = NotClean]
    /\ nchanges' = nchanges + 1
    /\ lastLoad' = NoLoad
    /\ lastCheck' = NoCheck
    /\ val' = NoVal
    /\ UNCHANGED <<arg, db, tmp, pc, call, ret, start, ncalls, nloads>>

\* A caller runs load_layer on a container file of its own.
LoadLayerCall(cid, layer_name, if_exists, order_id, batch_size) ==
    /\ pc = "idle"
    /\ ~lastLoad.active /\ ~lastCheck.active
    /\ nloads < MaxLoads
    /\ \E ld \in {load_layer(db, [exists |-> TRUE, cid |-> cid], layer_name,
                             if_exists, order_id, batch_size)} :
           /\ db' = ld.db
           /\ lastLoad' = LoadRecord(db, ld, cid, order_id, if_exists,
                                       ExpectedCount(cid, layer_name))
    /\ lastCheck' = NoCheck
    /\ nloads' = nloads + 1
    /\ val' = NoVal
    /\ UNCHANGED <<arg, fs, tmp, pc, call, ret, start, clean, ncalls, nchanges>>

\* The caller runs the maintenance action cleanup_stale_tables.
CleanupStaleTables ==
    /\ pc = "idle"
    /\ \E x \in {cleanup_stale_tables(db, fs)} :
           /\ db' = x.db
           /\ val' = Returned("cleanup_stale_tables", db, x.err, x.out)
    /\ lastLoad' = NoLoad
    /\ lastCheck' = NoCheck
    /\ UNCHANGED <<arg, fs, tmp, pc, call, ret, start, clean, ncalls, nchanges, nloads>>

\* A caller asks is_layer_current about a container file of its own.
IsLayerCurrentCall(cid, layer_name, order_id) ==
    /\ pc = "idle"
    /\ ~lastLoad.active /\ ~lastCheck.active
    /\ nloads < MaxLoads
    /\ \E r \in {is_layer_current(db, cid, layer_name, order_id)} :
           /\ db' = r.db
           /\ lastCheck' = [active |-> TRUE, cid |-> cid, layer |-> layer_name,
                            order |-> order_id, before |-> db,
                            err |-> r.err, current |-> r.current]
    /\ lastLoad' = NoLoad
    /\ nloads' = nloads + 1
    /\ val' = NoVal
    /\ UNCHANGED <<arg, fs, tmp, pc, call, ret, start, clean, ncalls, nchanges>>

\* A caller lists the destination's tables.
ListTables ==
    /\ pc = "idle"
    /\ ~lastLoad.active /\ ~lastCheck.active /\ ~val.done
    /\ \E r \in {list_tables(Ctx(db))} :
           /\ db' = r.db
           /\ val' = Returned("list_tables", db, r.err, r.out)
    /\ UNCHANGED <<arg, fs, tmp, pc, call, ret, start, lastLoad, lastCheck, clean,
                   ncalls, nchanges, nloads>>

\* A caller asks for the statistics of a table.
GetTableStats(table_name) ==
    /\ pc = "idle"
    /\ ~lastLoad.active /\ ~lastCheck.active /\ ~val.done
    /\ \E r \in {get_table_stats(Ctx(db), table_name)} :
           /\ db' = r.db
           /\ val' = Returned("get_table_stats", db, r.err, r.out)
    /\ UNCHANGED <<arg, fs, tmp, pc, call, ret, start, lastLoad, lastCheck, clean,
                   ncalls, nchanges, nloads>>

\* A caller reads the metadata records.
GetMetadataCall ==
    /\ pc = "idle"
    /\ ~lastLoad.active /\ ~lastCheck.active /\ ~val.done
    /\ \E x \in {get_metadata(Ctx(db))} :
           /\ db' = x.db
           /\ val' = Returned("get_metadata", db, x.err,
                               IF x.err # "" THEN <<>>
                               ELSE SortedKeys(x.db.collate,
                                               {k \in MetaKeys : x.db.W.meta[k].exists}))
    /\ UNCHANGED <<arg, fs, tmp, pc, call, ret, start, lastLoad, lastCheck, clean,
                   ncalls, nchanges, nloads>>

\* The caller of a loader method takes the value returned.
LoaderReturn ==
    /\ pc = "idle"
    /\ lastLoad.active \/ lastCheck.active \/ val.done
    /\ lastLoad' = NoLoad
    /\ lastCheck' = NoCheck
    /\ val' = NoVal
    /\ UNCHANGED <<arg, fs, db, tmp, pc, call, ret, start, clean, ncalls, nchanges, nloads>>

\* process_order lines 104-159: up to the end of the first pass
ProcessOrderStart(o, layers, progress_callback) ==
    /\ pc = "idle"
    /\ start' = [db |-> db, tmp |-> tmp]
    /\ lastLoad' = NoLoad
    /\ lastCheck' = NoCheck
    /\ \E dir \in {fs[o]} :
       \E detected \in {detect_order_type(dir)} :
       \E fp \in {first_pass(dir, find_gpkg_files(detected.files, layers), layers,
                             [worklist |-> <<>>, results |-> <<>>, leaked |-> 0])} :
       \E c0 \in {[NoCall EXCEPT !.order = o, !.layers = layers,
                                  !.callback = progress_callback,
                                  !.wasClean = clean[o].ok /\ clean[o].layers = layers]} :
           IF dir.kind = "absent"
           THEN /\ pc' = "done"
                /\ ret' = failed_result("unknown", "Order directory not found")
                /\ call' = c0
                /\ tmp' = tmp
           ELSE IF detected.raised
           THEN /\ pc' = "raised"
                /\ ret' = NoRet
                /\ call' = c0
                /\ tmp' = tmp
           ELSE IF ~is_publishable(detected.data_type)
           THEN /\ pc' = "done"
                /\ ret' = failed_result(detected.data_type, "not yet supported for publishing")
                /\ call' = [c0 EXCEPT !.data_type = detected.data_type]
                /\ tmp' = tmp
           ELSE /\ pc' = "pass2"
                /\ ret' = NoRet
                /\ call' = [c0 EXCEPT !.data_type = detected.data_type,
                                      !.worklist = fp.worklist,
                                      !.total_layers = Len(fp.worklist),
                                      !.results = fp.results]
                /\ tmp' = tmp + fp.leaked
    /\ val' = NoVal
    /\ UNCHANGED <<fs, db, clean, nchanges, nloads>>

\* A caller calls process_order.
ProcessOrderBegin(o, layers, progress_callback) ==
    /\ ncalls < MaxCalls
    /\ ncalls' = ncalls + 1
    /\ ProcessOrderStart(o, layers, progress_callback)
    /\ UNCHANGED arg

\* process_order lines 162-164: the progress callback, when one was given,
\* is called at the head of an iteration of the second pass and returns
ProgressCallback ==
    /\ pc = "pass2"
    /\ call.callback
    /\ call.i < Len(call.worklist)
    /\ Len(call.progress) = call.i
    /\ call' = [call EXCEPT !.progress =
                    Append(@, progress_callback_args(call.worklist, call.i,
                                                     call.total_layers))]
    /\ val' = NoVal
    /\ UNCHANGED <<arg, fs, db, tmp, pc, ret, start, lastLoad, lastCheck, clean,
                   ncalls, nchanges, nloads>>

\* process_order lines 166-195: the rest of an iteration of the second pass
ProcessLayer ==
    /\ pc = "pass2"
    /\ call.i < Len(call.worklist)
    /\ call.callback => Len(call.progress) = call.i + 1
    /\ \E t \in {call.worklist[call.i + 1]} :
       \E s \in {second_pass_step(db, fs[call.order], call.order, t)} :
       \E gain \in {IF s.loaded /\ s.emitted[1].success THEN s.emitted[1].count ELSE 0} :
           /\ db' = s.db
           /\ tmp' = tmp + s.leaked
           /\ call' = [call EXCEPT !.i = @ + 1,
                                   !.results = @ \o s.emitted,
                                   !.total = @ + gain,
                                   !.visits = Append(@, [t |-> t, current |-> s.current,
                                                         loaded |-> s.loaded,
                                                         emitted |-> s.emitted])]
           /\ lastLoad' = IF s.loaded
                          THEN LoadRecord(db, [log |-> s.log, res |-> s.emitted[1]],
                                 EntryAt(fs[call.order], t.zip_name, t.inner_path).cid,
                                 call.order, "replace",
                                 ExpectedCount(EntryAt(fs[call.order], t.zip_name, t.inner_path).cid,
                                               t.layer_name))
                          ELSE NoLoad
    /\ lastCheck' = NoCheck
    /\ val' = NoVal
    /\ UNCHANGED <<arg, fs, pc, ret, start, clean, ncalls, nchanges, nloads>>

\* process_order lines 197-208: the result is put together and returned
ProcessOrderFinish ==
    /\ pc = "pass2"
    /\ call.i = Len(call.worklist)
    /\ pc' = "done"
    /\ ret' = process_result(call.data_type, call.results, call.total)
    /\ lastLoad' = NoLoad
    /\ lastCheck' = NoCheck
    /\ val' = NoVal
    /\ UNCHANGED <<arg, fs, db, tmp, call, start, clean, ncalls, nchanges, nloads>>

\* The caller takes the ProcessResult, or the exception that came out.
Return ==
    /\ pc \in {"done", "raised"}
    /\ pc' = "idle"
    /\ clean' = [clean EXCEPT ![call.order] =
                    IF pc = "done" /\ ret.success
                    THEN [ok |-> TRUE, layers |-> call.layers] ELSE NotClean]
    /\ call' = NoCall
    /\ ret' = NoRet
    /\ start' = NoStart
    /\ lastLoad' = NoLoad
    /\ lastCheck' = NoCheck
    /\ val' = NoVal
    /\ UNCHANGED <<arg, fs, db, tmp, ncalls, nchanges, nloads>>

Next ==
    \/ InitDatabase
    \/ \E n \in SchemaNames : CreateSchema(n)
    \/ GetStatus
    \/ Close
    \/ CleanupStaleTables
    \/ \E o \in OrderIds, d \in OrderDirs : ChangeDir(o, d)
    \/ \E o \in OrderIds, layers \in Allowlists, cb \in BOOLEAN :
          ProcessOrderBegin(o, layers, cb)
    \/ ProgressCallback
    \/ ProcessLayer
    \/ ProcessOrderFinish
    \/ Return

Spec == Init /\ [][Next]_vars

\* ------------------------------------------------- process_incremental
NoIncremental == [called |-> <<>>, results |-> <<>>]

\* process_incremental lines 321-358 (called without a progress callback):
\* get_metadata, then the orders to process are chosen; the call raises
\* when get_metadata or detect_order_type does
ProcessIncrementalBegin ==
    /\ pc = "idle"
    /\ arg = NoArg
    /\ ncalls < MaxCalls
    /\ ncalls' = ncalls + 1
    /\ \E x \in {get_metadata(Ctx(db))} :
       \E order_dirs \in OrderDirSeqs(fs) :
       \E sel \in {orders_to_process(order_dirs, fs, x.db.W.meta,
                                      [raised |-> FALSE, selected |-> <<>>])} :
           /\ db' = x.db
           /\ IF x.err # ""
              THEN /\ arg' = NoArg
                   /\ val' = Returned("process_incremental", db, x.err, NoIncremental)
              ELSE IF sel.raised
              THEN /\ arg' = NoArg
                   /\ val' = Returned("process_incremental", db, "raised", NoIncremental)
              ELSE /\ arg' = [kind |-> "incremental", before |-> db,
                               queue |-> sel.selected, called |-> <<>>,
                               results |-> <<>>]
                   /\ val' = NoVal
    /\ lastLoad' = NoLoad
    /\ lastCheck' = NoCheck
    /\ UNCHANGED <<fs, tmp, pc, call, ret, start, clean, nchanges, nloads>>

\* process_incremental lines 360-365: process_order is called for the next
\* of the orders to process, with neither allowlist nor callback
ProcessIncrementalOrder ==
    /\ arg.kind = "incremental"
    /\ arg.queue # <<>>
    /\ ProcessOrderStart(Head(arg.queue), <<>>, FALSE)
    /\ arg' = [arg EXCEPT !.queue = Tail(@), !.called = Append(@, Head(arg.queue))]
    /\ UNCHANGED ncalls

\* process_incremental lines 365-366: the ProcessResult is appended to
\* results; an exception out of process_order ends process_incremental
ProcessIncrementalResult ==
    /\ arg.kind = "incremental"
    /\ pc \in {"done", "raised"}
    /\ pc' = "idle"
    /\ clean' = [clean EXCEPT ![call.order] =
                    IF pc = "done" /\ ret.success
                    THEN [ok |-> TRUE, layers |-> call.layers] ELSE NotClean]
    /\ IF pc = "done"
       THEN /\ arg' = [arg EXCEPT !.results = Append(@, ret)]
            /\ val' = NoVal
       ELSE /\ arg' = NoArg
            /\ val' = Returned("process_incremental", arg.before, "raised",
                               [called |-> arg.called, results |-> arg.results])
    /\ call' = NoCall
    /\ ret' = NoRet
    /\ start' = NoStart
    /\ lastLoad' = NoLoad
    /\ lastCheck' = NoCheck
    /\ UNCHANGED <<fs, db, tmp, ncalls, nchanges, nloads>>

\* process_incremental line 368: results is returned
ProcessIncrementalEnd ==
    /\ arg.kind = "incremental"
    /\ pc = "idle"
    /\ arg.queue = <<>>
    /\ arg' = NoArg
    /\ val' = Returned("process_incremental", arg.before, "",
                       [called |-> arg.called, results |-> arg.results])
    /\ lastLoad' = NoLoad
    /\ lastCheck' = NoCheck
    /\ UNCHANGED <<fs, db, tmp, pc, call, ret, start, clean, ncalls, nchanges, nloads>>

\* The pipeline driven by process_incremental: the destination is
\* bootstrapped, order directories change between calls, and every
\* process_order call is one that process_incremental makes.
NextIncremental ==
    \/ InitDatabase
    \/ \E o \in OrderIds, d \in OrderDirs : ChangeDir(o, d)
    \/ ProcessIncrementalBegin
    \/ ProcessIncrementalOrder
    \/ ProcessLayer
    \/ ProcessOrderFinish
    \/ ProcessIncrementalResult
    \/ ProcessIncrementalEnd

SpecIncremental == Init /\ [][NextIncremental]_vars

\* The loader on its own: callers that run load_layer on container files,
\* under every conflict policy and batch size, with no pipeline around it.
InitLoader ==
    /\ fs = [o \in OrderIds |-> AbsentDir]
    /\ \E up \in BOOLEAN, collate \in Collations :
          db = [NewDb(up) EXCEPT !.collate = collate]
    /\ tmp = 0
    /\ pc = "idle"
    /\ call = NoCall
    /\ ret = NoRet
    /\ start = NoStart
    /\ lastLoad = NoLoad
    /\ lastCheck = NoCheck
    /\ clean = [o \in OrderIds |-> NotClean]
    /\ ncalls = 0
    /\ nchanges = 0
    /\ nloads = 0
    /\ arg = NoArg
    /\ val = NoVal

NextLoader ==
    \/ InitDatabase
    \/ \E n \in SchemaNames : CreateSchema(n)
    \/ Close
    \/ CleanupStaleTables
    \/ \E cid \in ContainerIds, l \in LayerNames, p \in Policies,
          o \in {"o1", NoOrder}, n \in BatchSizes : LoadLayerCall(cid, l, p, o, n)
    \/ \E cid \in ContainerIds, l \in LayerNames, o \in OrderIds :
          IsLayerCurrentCall(cid, l, o)
    \/ ListTables
    \/ \E t \in TableNames : GetTableStats(t)
    \/ GetMetadataCall
    \/ LoaderReturn

SpecLoader == InitLoader /\ [][NextLoader]_vars

\* ------------------------------------------------------ detection alone
\* detect_order_type applied once to a generated order directory: one
\* archive of up to MaxEntries entries, alone or after a corrupt archive, or
\* no archive; with or without index files and a product-type key.
MaxEntries == 3

\* a function applied on its own: the input is drawn, nothing is returned yet
\* and the pipeline and the loader stay as they start
InitApply(inputs) ==
    /\ fs = [o \in OrderIds |-> AbsentDir]
    /\ db = NewDb(FALSE)
    /\ tmp = 0
    /\ pc = "idle"
    /\ call = NoCall
    /\ ret = NoRet
    /\ start = NoStart
    /\ lastLoad = NoLoad
    /\ lastCheck = NoCheck
    /\ clean = [o \in OrderIds |-> NotClean]
    /\ ncalls = 0
    /\ nchanges = 0
    /\ nloads = 0
    /\ arg \in inputs
    /\ val = NoVal

DetectInputs ==
    LET Kinds == {"gpkg", "gpkg4", "notdb", "badcrc", "laz", "tif", "jp2"}
        PathName(i) == <<"p1", "p2", "p3", "p4", "p5", "p6">>[i]
        EntryOfKind(k, i) ==
            CASE k = "gpkg" -> Gpkg(PathName(i), Sa, 2)
              [] k = "gpkg4" -> Gpkg(PathName(i), Sb, 4)
              [] k = "notdb" -> Gpkg(PathName(i), Sa, 5)
              [] k = "badcrc" -> Entry(PathName(i), Sa, ".gpkg", FALSE, 1)
              [] k = "laz" -> Entry(PathName(i), Sb, ".laz", TRUE, 5)
              [] k = "tif" -> Entry(PathName(i), Sb, ".tif", TRUE, 5)
              [] k = "jp2" -> Entry(PathName(i), Sb, ".jp2", TRUE, 5)
        EntriesOf(kinds) == [i \in 1..Len(kinds) |-> EntryOfKind(kinds[i], i)]
        Entries == {EntriesOf(ks) : ks \in UNION {[1..n -> Kinds] : n \in 0..MaxEntries}}
        Metadata ==
            { NoMetadata,
              <<NoKey, Key({"ortofoto"}), NoKey, NoKey>>,
              <<Key({"laserdata"}), NoKey, NoKey, NoKey>> }
        Index == {<<>>, <<"tiles">>, <<"notjson">>, <<"badtitle">>}
        Archives ==
            {<<>>} \cup {<<Archive("z1", TRUE, es)>> : es \in Entries}
                   \cup {<<Archive("z0", FALSE, <<>>), Archive("z1", TRUE, es)>> :
                            es \in Entries}
    IN  {[kind |-> "detect", dir |-> Dir(m, ix, as)] :
            m \in Metadata, ix \in Index, as \in Archives}

\* detect_order_type(order_dir)
DetectOrderType ==
    /\ arg.kind = "detect"
    /\ ~val.done
    /\ val' = [done |-> TRUE, out |-> detect_order_type(arg.dir)]
    /\ UNCHANGED <<arg, fs, db, tmp, pc, call, ret, start, lastLoad, lastCheck, clean,
                   ncalls, nchanges, nloads>>

SpecDetect == InitApply(DetectInputs) /\ [][DetectOrderType]_vars

\* ------------------------------------------------------ the GPB header
\* Byte strings are sequences of the integers 0..255.
\* gpb_to_wkb with no envelope table: the 8 header bytes alone are removed
gpb_to_wkb_header_only(gpb) ==
    IF Len(gpb) < 8 THEN [err |-> "ValueError", out |-> <<>>]
    ELSE IF SubSeq(gpb, 1, 2) # <<71, 80>> THEN [err |-> "", out |-> gpb]
    ELSE [err |-> "", out |-> SubSeq(gpb, 9, Len(gpb))]

\* gpb_to_wkb line 43-44: envelope_sizes.get(envelope_type, 0)
envelope_sizes(envelope_type) ==
    CASE envelope_type = 0 -> 0
      [] envelope_type = 1 -> 32
      [] envelope_type = 2 -> 48
      [] envelope_type = 3 -> 48
      [] envelope_type = 4 -> 64
      [] OTHER -> 0

\* gpkg_reader.gpb_to_wkb: err "ValueError" when it raises, else out
gpb_to_wkb(gpb) ==
    IF Len(gpb) < 8 THEN [err |-> "ValueError", out |-> <<>>]
    ELSE IF SubSeq(gpb, 1, 2) # <<71, 80>> THEN [err |-> "", out |-> gpb]
    ELSE [err |-> "",
          out |-> SubSeq(gpb, 8 + envelope_sizes((gpb[4] \div 2) % 8) + 1, Len(gpb))]

\* The byte strings gpb_to_wkb is applied to: every prefix, up to MaxGpbLen
\* bytes, of a header (magic or not, version 0, a flags byte) followed by
\* bytes that differ from place to place.
MaxGpbLen == 74

GpbInputs ==
    LET Magics == {<<71, 80>>, <<71, 81>>, <<80, 71>>, <<1, 1>>}
        Flags == 0..15 \cup {32, 43, 255}
        Fill(i, seed) == (i * 7 + seed) % 256
        Bytes(magic, flags, seed, n) ==
            [i \in 1..n |-> IF i <= 2 THEN magic[i]
                            ELSE IF i = 3 THEN 0
                            ELSE IF i = 4 THEN flags
                            ELSE Fill(i, seed)]
    IN  {[kind |-> "gpb", bytes |-> Bytes(m, f, sd, n)] :
            m \in Magics, f \in Flags, sd \in {0, 100}, n \in 0..MaxGpbLen}

\* gpb_to_wkb(gpb)
GpbToWkb ==
    /\ arg.kind = "gpb"
    /\ ~val.done
    /\ val' = [done |-> TRUE, out |-> gpb_to_wkb(arg.bytes)]
    /\ UNCHANGED <<arg, fs, db, tmp, pc, call, ret, start, lastLoad, lastCheck, clean,
                   ncalls, nchanges, nloads>>

SpecGpb == InitApply(GpbInputs) /\ [][GpbToWkb]_vars

\* ------------------------------------------------------- the WKB parser
\* wkb[off:off + n] for a 0-based off: shorter than n where the string ends
Slice(wkb, off, n) ==
    SubSeq(wkb, off + 1, IF off + n > Len(wkb) THEN Len(wkb) ELSE off + n)

Reverse(b) == [i \in 1..Len(b) |-> b[Len(b) + 1 - i]]

\* struct.unpack of one field: its bytes from the most significant to the
\* least ("<": stored in the reverse order).  A double is kept as its 8
\* bytes in this order, an unsigned int as its 4.
unpack(b, endian) == IF endian = "<" THEN Reverse(b) ELSE b

\* x & TYPE_MASK of an unpacked unsigned int
TYPE_MASK(x) == x[4]

\* bool(x & 0x20000000)
has_srid(x) == (x[1] \div 32) % 2 = 1

\* range(x) of an unpacked unsigned int, as the number of rounds asked for;
\* 2^31 and more count as 2^31 - 1, every loop of the parser failing for
\* want of bytes long before
range(x) ==
    IF x[1] >= 128 THEN 2147483647
    ELSE x[1] * 16777216 + x[2] * 65536 + x[3] * 256 + x[4]

\* a parser's outcome: the exception raised, or the value and the offset
\* after the bytes it read
ParseErr(e) == [err |-> e, geom |-> <<>>, off |-> 0]

ParseOk(g, off) == [err |-> "", geom |-> g, off |-> off]

\* list.append across a loop: the value of this round before those of the
\* rounds after it, or the exception they raised
Prepend(x, rest) ==
    IF rest.err # "" THEN rest ELSE ParseOk(<<x>> \o rest.geom, rest.off)

\* {"type": ..., "coordinates": ...}
AsGeom(type, r) ==
    IF r.err # "" THEN r
    ELSE ParseOk([type |-> type, coordinates |-> r.geom], r.off)

\* struct.unpack(f"{endian}dd", wkb[offset:offset + 16])
unpack_dd(wkb, off, endian) ==
    <<unpack(Slice(wkb, off, 8), endian), unpack(Slice(wkb, off + 8, 8), endian)>>

\* wkb_parser._parse_point
parse_point(wkb, off, endian) ==
    IF Len(Slice(wkb, off, 16)) < 16 THEN ParseErr("struct.error")
    ELSE ParseOk([type |-> "Point", coordinates |-> unpack_dd(wkb, off, endian)], off + 16)

\* _parse_linestring lines 98-101, _parse_polygon lines 114-117: n points
RECURSIVE parse_points(_, _, _, _)
parse_points(wkb, off, endian, n) ==
    IF n = 0 THEN ParseOk(<<>>, off)
    ELSE IF Len(Slice(wkb, off, 16)) < 16 THEN ParseErr("struct.error")
    ELSE Prepend(unpack_dd(wkb, off, endian), parse_points(wkb, off + 16, endian, n - 1))

\* wkb_parser._parse_linestring
parse_linestring(wkb, off, endian) ==
    IF Len(Slice(wkb, off, 4)) < 4 THEN ParseErr("struct.error")
    ELSE AsGeom("LineString",
                parse_points(wkb, off + 4, endian, range(unpack(Slice(wkb, off, 4), endian))))

\* _parse_polygon lines 110-118: n rings
RECURSIVE parse_rings(_, _, _, _)
RECURSIVE ring_then(_, _, _, _)
parse_rings(wkb, off, endian, n) ==
    IF n = 0 THEN ParseOk(<<>>, off)
    ELSE IF Len(Slice(wkb, off, 4)) < 4 THEN ParseErr("struct.error")
    ELSE ring_then(wkb, endian, n,
                   parse_points(wkb, off + 4, endian,
                                range(unpack(Slice(wkb, off, 4), endian))))

\* line 118: the ring is kept and the next one read where it ended
ring_then(wkb, endian, n, ring) ==
    IF ring.err # "" THEN ring
    ELSE Prepend(ring.geom, parse_rings(wkb, ring.off, endian, n - 1))

\* wkb_parser._parse_polygon
parse_polygon(wkb, off, endian) ==
    IF Len(Slice(wkb, off, 4)) < 4 THEN ParseErr("struct.error")
    ELSE AsGeom("Polygon",
                parse_rings(wkb, off + 4, endian, range(unpack(Slice(wkb, off, 4), endian))))

\* line 136, line 169: "<" if wkb[offset] == 1 else ">"
inner_endian(wkb, off) == IF wkb[off + 1] = 1 THEN "<" ELSE ">"

\* _parse_multi lines 140-157: the sub-geometry of the container's kind; the
\* offset the code recomputes after it (lines 143, 147-148, 153-157) is the
\* one the sub-parser stopped at
parse_inner(wkb, off, endian, inner_type) ==
    CASE inner_type = 1 -> parse_point(wkb, off, endian)
      [] inner_type = 2 -> parse_linestring(wkb, off, endian)
      [] inner_type = 3 -> parse_polygon(wkb, off, endian)

\* _parse_multi lines 134-157: n sub-geometries; the type code of a
\* sub-header is read and not used
RECURSIVE multi_loop(_, _, _, _)
RECURSIVE multi_then(_, _, _, _)
multi_loop(wkb, off, inner_type, n) ==
    IF n = 0 THEN ParseOk(<<>>, off)
    ELSE IF off >= Len(wkb) THEN ParseErr("IndexError")
    ELSE IF Len(Slice(wkb, off + 1, 4)) < 4 THEN ParseErr("struct.error")
    ELSE multi_then(wkb, inner_type, n,
                    parse_inner(wkb, off + 5, inner_endian(wkb, off), inner_type))

multi_then(wkb, inner_type, n, g) ==
    IF g.err # "" THEN g
    ELSE Prepend(g.geom.coordinates, multi_loop(wkb, g.off, inner_type, n - 1))

\* wkb_parser._parse_multi
parse_multi(wkb, off, endian, geom_type_name, inner_type) ==
    IF Len(Slice(wkb, off, 4)) < 4 THEN ParseErr("struct.error")
    ELSE AsGeom(geom_type_name,
                multi_loop(wkb, off + 4, inner_type,
                           range(unpack(Slice(wkb, off, 4), endian))))

RECURSIVE parse_geometry(_, _, _, _)
RECURSIVE collection_loop(_, _, _)
RECURSIVE collection_then(_, _, _, _)

\* {"type": "GeometryCollection", "geometries": ...}
AsCollection(r) ==
    IF r.err # "" THEN r
    ELSE ParseOk([type |-> "GeometryCollection", geometries |-> r.geom], r.off)

\* wkb_parser._parse_geometry_collection
parse_geometry_collection(wkb, off, endian) ==
    IF Len(Slice(wkb, off, 4)) < 4 THEN ParseErr("struct.error")
    ELSE AsCollection(collection_loop(wkb, off + 4,
                                      range(unpack(Slice(wkb, off, 4), endian))))

\* wkb_parser._parse_geometry
parse_geometry(wkb, off, geom_type, endian) ==
    CASE geom_type = 1 -> parse_point(wkb, off, endian)
      [] geom_type = 2 -> parse_linestring(wkb, off, endian)
      [] geom_type = 3 -> parse_polygon(wkb, off, endian)
      [] geom_type = 4 -> parse_multi(wkb, off, endian, "MultiPoint", 1)
      [] geom_type = 5 -> parse_multi(wkb, off, endian, "MultiLineString", 2)
      [] geom_type = 6 -> parse_multi(wkb, off, endian, "MultiPolygon", 3)
      [] geom_type = 7 -> parse_geometry_collection(wkb, off, endian)
      [] OTHER -> ParseErr("ValueError")

\* _parse_geometry_collection lines 168-173: n sub-geometries
collection_loop(wkb, off, n) ==
    IF n = 0 THEN ParseOk(<<>>, off)
    ELSE IF off >= Len(wkb) THEN ParseErr("IndexError")
    ELSE IF Len(Slice(wkb, off + 1, 4)) < 4 THEN ParseErr("struct.error")
    ELSE collection_then(wkb, off + 5, n,
            parse_geometry(wkb, off + 5,
                           TYPE_MASK(unpack(Slice(wkb, off + 1, 4), inner_endian(wkb, off))),
                           inner_endian(wkb, off)))

\* lines 171-175: the offset stays where the sub-header ended, whatever the
\* sub-geometry read
collection_then(wkb, off, n, g) ==
    IF g.err # "" THEN g
    ELSE Prepend(g.geom, collection_loop(wkb, off, n - 1))

\* wkb_to_geojson lines 50-63, the byte order known
wkb_body(wkb, endian) ==
    parse_geometry(wkb,
                   IF has_srid(unpack(Slice(wkb, 1, 4), endian)) THEN 9 ELSE 5,
                   TYPE_MASK(unpack(Slice(wkb, 1, 4), endian)),
                   endian)

\* what a caller gets: the exception, or the geometry
Outcome(r) == [err |-> r.err, geom |-> r.geom]

\* wkb_parser.wkb_to_geojson
wkb_to_geojson(wkb) ==
    IF Len(wkb) < 5 THEN Outcome(ParseErr("ValueError"))
    ELSE IF wkb[1] = 0 THEN Outcome(wkb_body(wkb, ">"))
    ELSE IF wkb[1] = 1 THEN Outcome(wkb_body(wkb, "<"))
    ELSE Outcome(ParseErr("ValueError"))

\* The byte strings wkb_to_geojson is applied to: the standard encodings of
\* small geometries, in either byte order, with or without an SRID, whole
\* or with one defect: cut short, a byte order that is neither 0 nor 1 in
\* the outer or the first inner header, a type code the parser does not
\* hold, or a first sub-geometry of another type than its container's.
MaxGeoms == 2

WkbInputs ==
    LET \* 1.0, 2.0, and a double whose little-endian bytes begin like the header of
        \* a little-endian Point
        D1 == <<63, 240, 0, 0, 0, 0, 0, 0>>
        D2 == <<64, 0, 0, 0, 0, 0, 0, 0>>
        D3 == <<64, 0, 0, 0, 0, 0, 1, 1>>
        P1 == <<D1, D2>>
        P2 == <<D2, D1>>
        P3 == <<D3, D1>>
        SeqsUpTo(S, n) == UNION {[1..k -> S] : k \in 0..n}
        Geom(type, coordinates) == [type |-> type, coordinates |-> coordinates]
        Collection(geometries) == [type |-> "GeometryCollection", geometries |-> geometries]
        SimpleGeoms ==
            { Geom("Point", P1), Geom("Point", P3),
              Geom("LineString", <<>>), Geom("LineString", <<P1, P2>>),
              Geom("Polygon", <<>>), Geom("Polygon", << <<P1, P2>> >>) }
        MultiGeoms ==
            {Geom("MultiPoint", c) : c \in SeqsUpTo({P1, P3}, MaxGeoms)}
            \cup {Geom("MultiLineString", c) : c \in SeqsUpTo({<<>>, <<P1, P2>>}, MaxGeoms)}
            \cup {Geom("MultiPolygon", c) :
                     c \in SeqsUpTo({<< <<P1, P2>> >>, << <<P1>>, <<>> >>}, MaxGeoms)}
        CollectionGeoms ==
            {Collection(g) :
                g \in SeqsUpTo({Geom("Point", P1), Geom("Point", P3),
                                Geom("LineString", <<P1, P2>>),
                                Geom("Polygon", << <<P1, P2>> >>),
                                Collection(<<Geom("Point", P1)>>)}, MaxGeoms)}
        WkbGeoms == SimpleGeoms \cup MultiGeoms \cup CollectionGeoms
        TypeCode(type) ==
            CASE type = "Point" -> 1
              [] type = "LineString" -> 2
              [] type = "Polygon" -> 3
              [] type = "MultiPoint" -> 4
              [] type = "MultiLineString" -> 5
              [] type = "MultiPolygon" -> 6
              [] type = "GeometryCollection" -> 7
        InnerOf(type) ==
            CASE type = "MultiPoint" -> "Point"
              [] type = "MultiLineString" -> "LineString"
              [] type = "MultiPolygon" -> "Polygon"
        \* struct.pack of an unsigned int below 256, of a double, of points
        PackI(n, endian) == unpack(<<0, 0, 0, n>>, endian)
        RECURSIVE Concat(_)
        Concat(ss) == IF ss = <<>> THEN <<>> ELSE Head(ss) \o Concat(Tail(ss))
        PackPoint(pt, endian) == unpack(pt[1], endian) \o unpack(pt[2], endian)
        PackPoints(pts, endian) ==
            PackI(Len(pts), endian) \o Concat([i \in 1..Len(pts) |-> PackPoint(pts[i], endian)])
        ByteOrder(endian) == IF endian = "<" THEN 1 ELSE 0
        \* the standard WKB of a geometry, every header in the one byte order
        RECURSIVE Encode(_, _)
        Encode(g, endian) ==
            <<ByteOrder(endian)>> \o PackI(TypeCode(g.type), endian) \o
            ( CASE g.type = "Point" -> PackPoint(g.coordinates, endian)
                [] g.type = "LineString" -> PackPoints(g.coordinates, endian)
                [] g.type = "Polygon" ->
                     PackI(Len(g.coordinates), endian) \o
                     Concat([i \in 1..Len(g.coordinates) |-> PackPoints(g.coordinates[i], endian)])
                [] g.type \in {"MultiPoint", "MultiLineString", "MultiPolygon"} ->
                     PackI(Len(g.coordinates), endian) \o
                     Concat([i \in 1..Len(g.coordinates) |->
                                Encode(Geom(InnerOf(g.type), g.coordinates[i]), endian)])
                [] g.type = "GeometryCollection" ->
                     PackI(Len(g.geometries), endian) \o
                     Concat([i \in 1..Len(g.geometries) |-> Encode(g.geometries[i], endian)]) )
        \* the extended form: flag 0x20000000 in the type code, then the SRID
        EncodeSrid(g, endian) ==
            <<ByteOrder(endian)>>
            \o unpack(<<32, 0, 0, TypeCode(g.type)>>, endian)
            \o unpack(<<0, 0, 11, 214>>, endian)
            \o SubSeq(Encode(g, endian), 6, Len(Encode(g, endian)))
        SetByte(b, i, v) == [b EXCEPT ![i] = v]
        Endians == {"<", ">"}
        WkbInput(b, g, defect) == [kind |-> "wkb", bytes |-> b, geom |-> g, defect |-> defect]
        HasInner(g) ==
            \/ g.type \in {"MultiPoint", "MultiLineString", "MultiPolygon"} /\ g.coordinates # <<>>
            \/ g.type = "GeometryCollection" /\ g.geometries # <<>>
    IN
    {WkbInput(Encode(g, e), g, "none") : g \in WkbGeoms, e \in Endians}
    \cup {WkbInput(EncodeSrid(g, e), g, "none") : g \in WkbGeoms, e \in Endians}
    \cup UNION {{WkbInput(SubSeq(Encode(g, e), 1, k), g, "truncated") :
                    k \in 0..(Len(Encode(g, e)) - 1)} : g \in WkbGeoms, e \in Endians}
    \cup {WkbInput(SetByte(Encode(g, e), 1, 2), g, "byte order") :
             g \in WkbGeoms, e \in Endians}
    \cup {WkbInput(SetByte(Encode(g, ">"), 5, t), g, "type") :
             g \in WkbGeoms, t \in {0, 8}}
    \cup {WkbInput(SetByte(Encode(g, ">"), 10, 2), g, "inner byte order") :
             g \in {h \in WkbGeoms : HasInner(h)}}
    \cup {WkbInput(SetByte(Encode(g, ">"), 14, IF g.type = "MultiPoint" THEN 2 ELSE 1),
                   g, "inner type") :
             g \in {h \in MultiGeoms : HasInner(h)}}

\* wkb_to_geojson(wkb)
WkbToGeojson ==
    /\ arg.kind = "wkb"
    /\ ~val.done
    /\ val' = [done |-> TRUE, out |-> wkb_to_geojson(arg.bytes)]
    /\ UNCHANGED <<arg, fs, db, tmp, pc, call, ret, start, lastLoad, lastCheck, clean,
                   ncalls, nchanges, nloads>>

SpecWkb == InitApply(WkbInputs) /\ [][WkbToGeojson]_vars

\* ------------------------------------------------------ reading a layer
\* A stored geometry value or a Feature's geometry: NULL/None, or a byte
\* string.  A layer is its rows in storage order (fid, geometry value, one
\* value per attribute column) and the number of its attribute columns.
Null == [null |-> TRUE, bytes |-> <<>>]

Blob(b) == [null |-> FALSE, bytes |-> b]

\* read_layer lines 229-237: the statement and the rows SQLite returns for
\* it.  The column list ends in ", " before FROM when the layer has no
\* attribute column; OFFSET is appended without LIMIT when limit is None or
\* 0 and offset is not 0.  Both are syntax errors.
select_rows(layer, limit, offset) ==
    LET has_limit == limit.given /\ limit.n # 0
        hi == IF has_limit /\ offset + limit.n < Len(layer.rows)
              THEN offset + limit.n ELSE Len(layer.rows)
    IN  IF layer.ncols = 0 \/ (offset # 0 /\ ~has_limit)
        THEN [err |-> "sqlite3.OperationalError", rows |-> <<>>]
        ELSE [err |-> "", rows |-> SubSeq(layer.rows, offset + 1, hi)]

\* read_layer yielding the stored value as it is
feature_of_raw(row) ==
    [err |-> "",
     feature |-> [fid |-> row.fid, geometry |-> row.gpb, properties |-> row.props]]

\* read_layer lines 239-245: the Feature made of one row
feature_of(row) ==
    IF row.gpb.null \/ row.gpb.bytes = <<>>
    THEN [err |-> "",
          feature |-> [fid |-> row.fid, geometry |-> Null, properties |-> row.props]]
    ELSE [err |-> gpb_to_wkb(row.gpb.bytes).err,
          feature |-> [fid |-> row.fid,
                       geometry |-> Blob(gpb_to_wkb(row.gpb.bytes).out),
                       properties |-> row.props]]

\* read_layer line 239: the loop over the cursor, ended by the first row
\* gpb_to_wkb refuses
RECURSIVE yield_features(_, _)
yield_features(rows, feats) ==
    IF rows = <<>> THEN [err |-> "", feats |-> feats]
    ELSE IF feature_of(Head(rows)).err # ""
    THEN [err |-> feature_of(Head(rows)).err, feats |-> feats]
    ELSE yield_features(Tail(rows), Append(feats, feature_of(Head(rows)).feature))

\* GeoPackageReader.read_layer(layer, limit, offset), consumed to its end:
\* the features yielded and the exception that ended the iteration, if any
read_layer_at(layer, limit, offset) ==
    IF select_rows(layer, limit, offset).err # ""
    THEN [err |-> select_rows(layer, limit, offset).err, feats |-> <<>>]
    ELSE yield_features(select_rows(layer, limit, offset).rows, <<>>)

\* The layers read: up to MaxRows rows, each with one of the stored values
\* below, and 0 to 2 attribute columns; limit absent or 0..2, offset 0..2.
MaxRows == 3

ReaderInputs ==
    LET Envelope == [i \in 1..32 |-> 200 + i]
        Stored ==
            { Null,
              Blob(<<>>),
              Blob(<<71, 80, 0>>),
              Blob(<<71, 80, 0, 1, 190, 11, 0, 0, 1, 1>>),
              Blob(<<71, 80, 0, 3, 190, 11, 0, 0>> \o Envelope \o <<1, 2>>),
              Blob(<<71, 80, 0, 3, 190, 11, 0, 0, 5, 5>>),
              Blob(<<1, 1, 0, 0, 0, 9, 9, 9, 9>>) }
        RowsOf(gs, ncols) ==
            [i \in 1..Len(gs) |->
                [fid |-> i, gpb |-> gs[i], props |-> [c \in 1..ncols |-> i]]]
        Limits == {[given |-> FALSE, n |-> 0]} \cup {[given |-> TRUE, n |-> n] : n \in 0..2}
    IN  {[kind |-> "read", layer |-> [rows |-> RowsOf(gs, nc), ncols |-> nc],
          limit |-> l, offset |-> o] :
            gs \in UNION {[1..n -> Stored] : n \in 0..MaxRows},
            nc \in 0..2, l \in Limits, o \in 0..2}

\* read_layer(layer, limit, offset)
ReadLayer ==
    /\ arg.kind = "read"
    /\ ~val.done
    /\ val' = [done |-> TRUE, out |-> read_layer_at(arg.layer, arg.limit, arg.offset)]
    /\ UNCHANGED <<arg, fs, db, tmp, pc, call, ret, start, lastLoad, lastCheck, clean,
                   ncalls, nchanges, nloads>>

SpecReader == InitApply(ReaderInputs) /\ [][ReadLayer]_vars

\* ------------------------------------------------------------- claims
\* the rows a complete load of content cid's layer for an order leaves
CompleteRows(order_id, cid, layer_name) ==
    LET c == ContainerOf(cid)
        r == resolve_layer(list_layers(c), layer_name)
    IN  [k \in 1..ExpectedCount(cid, layer_name) |->
            [order |-> order_id, src |-> cid, layer |-> r.layer, k |-> k]]

\* C1: every metadata record (order_id, layer_name) stores the digest of
\* exactly the container file whose features its destination table holds: the
\* table exists and its rows are the complete rows of one load of that file
\* for that order and layer.
C1_Claim ==
    \A key \in MetaKeys :
        LET rec == db.C.meta[key]
        IN  rec.exists =>
              /\ db.C.tables[rec.table].exists
              /\ db.C.tables[rec.table].rows = CompleteRows(key[1], rec.hash, key[2])

\* C2: a process_order of an order whose previous process_order (same
\* allowlist) succeeded, with no change to the order's files since, finds
\* every worklist layer current and emits no LoadResult.
C2_Claim ==
    (pc = "done" /\ call.wasClean) =>
        /\ ret.layers_processed = <<>>
        /\ \A j \in 1..Len(call.visits) : call.visits[j].current

\* C3: distinct (order_id, layer) pairs get distinct destination tables.
C3_Claim ==
    \A k1 \in MetaKeys, k2 \in MetaKeys :
        (k1 # k2 /\ db.C.meta[k1].exists /\ db.C.meta[k2].exists)
            => db.C.meta[k1].table # db.C.meta[k2].table

\* the features of the layer a worklist triple names
TripleFeats(dir, t) ==
    LayerOf(ContainerOf(EntryAt(dir, t.zip_name, t.inner_path).cid), t.layer_name).feats

Malformed(feats) == \E k \in 1..Len(feats) : feats[k] \in {"short", "badwkb"}

\* a call that began on a working destination (reachable, bootstrapped, no
\* aborted transaction), whose first pass found every container readable and
\* whose worklist layers have tables of their own
SoundCall ==
    /\ start.db.up /\ start.db.C.boot /\ start.db.txn # "aborted"
    /\ call.data_type = "vector_gpkg"
    /\ Len(call.visits) = Len(call.worklist)
    /\ Len(call.results) = Cardinality({j \in 1..Len(call.visits) : call.visits[j].emitted # <<>>})
    /\ \A i \in 1..Len(call.worklist), j \in 1..Len(call.worklist) :
          i # j => sanitize_name(call.worklist[i].layer_name)
                     # sanitize_name(call.worklist[j].layer_name)

\* C4: when one layer of a process_order call fails on a malformed geometry,
\* every other layer of the worklist ends loaded: its LoadResult (if it was
\* not skipped as current) has success = TRUE and all its rows are in the
\* destination.
C4_Claim ==
    (pc = "done" /\ SoundCall) =>
        \A j \in 1..Len(call.worklist) :
            LET t == call.worklist[j]
                v == call.visits[j]
                dir == fs[call.order]
            IN  ~Malformed(TripleFeats(dir, t)) =>
                  /\ v.current \/ (v.emitted # <<>> /\ v.emitted[1].success)
                  /\ db.C.tables[sanitize_name(t.layer_name)].exists
                  /\ Len(db.C.tables[sanitize_name(t.layer_name)].rows)
                        = Len(TripleFeats(dir, t))

\* C6: no transient extraction file exists once its scope is left.
C6_Claim == tmp = 0

\* C7: process_order never propagates an exception to its caller.
C7_Claim == pc # "raised"

StageRank(stage) ==
    CASE stage = "drop" -> 1 [] stage = "create" -> 2 [] stage = "rows" -> 3
      [] stage = "index" -> 4 [] stage = "meta" -> 5 [] OTHER -> 0

\* the rows the destination table held, as the connection saw it, when a
\* load that keeps them (append) began
BaseRows(ld) ==
    IF ld.policy = "append" /\ ld.beforeW.boot /\ ld.beforeW.tables[ld.table].exists
    THEN ld.beforeW.tables[ld.table].rows ELSE <<>>

\* C5 (as claimed): a load_layer call issues no commit before all its batches
\* are inserted and its spatial index is rebuilt, so a load that fails leaves
\* the committed destination as it was before the call.
C5_Claim ==
    lastLoad.active =>
        /\ \A i \in 1..Len(lastLoad.log) : lastLoad.log[i].stage \in {"index", "meta"}
        /\ ~lastLoad.res.success => db.C = lastLoad.beforeC

\* C5 (amended): load_layer commits in the order drop, create, rows, index,
\* metadata; the commits of the drop and of the creation leave the table
\* without any row, and the one commit of the rows comes after all batches:
\* it commits every feature of the layer at once.
C5_Commits ==
    lastLoad.active =>
        \A i \in 1..Len(lastLoad.log) :
            LET e == lastLoad.log[i]
                tab == e.data.tables[lastLoad.table]
            IN  /\ \A j \in 1..(i - 1) : StageRank(lastLoad.log[j].stage) < StageRank(e.stage)
                /\ e.stage = "drop" => ~tab.exists
                /\ e.stage = "create" => tab.exists /\ tab.rows = <<>>
                /\ e.stage = "rows" =>
                      Len(tab.rows) = Len(BaseRows(lastLoad)) + lastLoad.expected

\* C5 witness: a Replace load that failed after its drop was committed: the
\* rows committed before the call are gone.
C5_Witness ==
    /\ lastLoad.active /\ ~lastLoad.res.success
    /\ lastLoad.beforeC.tables[lastLoad.table].rows # <<>>
    /\ \E i \in 1..Len(lastLoad.log) : lastLoad.log[i].stage = "drop"
    /\ db.C.tables[lastLoad.table].rows = <<>>

RECURSIVE SumSuccessful(_)
SumSuccessful(results) ==
    IF results = <<>> THEN 0
    ELSE (IF Head(results).success THEN Head(results).count ELSE 0)
         + SumSuccessful(Tail(results))

\* C8: for a publishable order the ProcessResult has success exactly when
\* every LoadResult succeeded (also when there is none), error exactly when
\* success is false, and total_features = the sum of feature_count over the
\* successful LoadResults.
C8_Result ==
    (pc = "done" /\ ret.data_type = "vector_gpkg") =>
        /\ ret.success <=> \A i \in 1..Len(ret.layers_processed) :
                               ret.layers_processed[i].success
        /\ ret.error # "" <=> ~ret.success
        /\ ret.total_features = SumSuccessful(ret.layers_processed)
        /\ ret.layers_processed = call.results

\* C8 witness: a returned result with a failed and a successful LoadResult.
C8_Witness ==
    /\ pc = "done" /\ ret.data_type = "vector_gpkg"
    /\ \E i \in 1..Len(ret.layers_processed), j \in 1..Len(ret.layers_processed) :
          ret.layers_processed[i].success /\ ~ret.layers_processed[j].success
    /\ ret.total_features > 0

\* whether the worklist triple about to be visited is current
NextIsCurrent ==
    LET t == call.worklist[call.i + 1]
    IN  is_layer_current(db, EntryAt(fs[call.order], t.zip_name, t.inner_path).cid,
                         t.layer_name, call.order).current

\* C9: the second pass visits every worklist triple once, in worklist order; a
\* current triple gives no LoadResult, no load_layer call and no change to the
\* destination; every other triple gives exactly one LoadResult; the call goes
\* on to the next triple whatever happened and returns after the last one.
C9_SecondPass ==
    [][ /\ (pc = "pass2" /\ pc' = "pass2"
            /\ [call' EXCEPT !.progress = call.progress] # call) =>
             /\ call.i < Len(call.worklist)
             /\ call'.i = call.i + 1
             /\ call'.worklist = call.worklist
             /\ Len(call'.visits) = call'.i
             /\ call'.visits[call'.i].t = call.worklist[call'.i]
             /\ IF NextIsCurrent
                THEN /\ call'.results = call.results
                     /\ db'.C = db.C /\ db'.W = db.W
                     /\ ~lastLoad'.active
                ELSE /\ Len(call'.results) = Len(call.results) + 1
                     /\ SubSeq(call'.results, 1, Len(call.results)) = call.results
        /\ pc = "pass2" =>
             /\ pc' \in {"pass2", "done"}
             /\ pc' = "done" =>
                   /\ call.i = Len(call.worklist)
                   /\ \A j \in 1..Len(call.worklist) : call.visits[j].t = call.worklist[j]
      ]_vars

\* C9 witness: a call that skipped a current triple and then loaded the next.
C9_Witness ==
    /\ pc = "done"
    /\ \E j \in 1..Len(call.visits), k \in 1..Len(call.visits) :
          j < k /\ call.visits[j].current /\ call.visits[k].loaded

\* C10: process_order on an absent order directory, or on an order whose
\* detected type is not the vector type, returns success = FALSE with an error
\* and no LoadResult, and leaves the connection and the destination as they
\* were.
C10_FailFast ==
    (pc = "done" /\ (fs[call.order].kind = "absent" \/ call.data_type # "vector_gpkg")) =>
        /\ ~ret.success
        /\ ret.error # ""
        /\ ret.layers_processed = <<>>
        /\ db = start.db
        /\ tmp = start.tmp

\* C10 witness: a point-cloud order refused while the destination holds data.
C10_Witness ==
    /\ pc = "done"
    /\ call.data_type = "lidar_laz"
    /\ \E t \in TableNames : db.C.tables[t].rows # <<>>

\* the metadata record an is_layer_current call asked about, as committed
\* when the call began
CheckedRecord == lastCheck.before.C.meta[<<lastCheck.order, lastCheck.layer>>]

CheckedMatch ==
    CheckedRecord.exists /\ CheckedRecord.hash = file_hash(lastCheck.cid)

\* the data the connection sees once the call has taken it
CheckedView ==
    IF lastCheck.before.conn THEN lastCheck.before.W ELSE lastCheck.before.C

\* C11 (as claimed): is_layer_current returns, in every state, true when a
\* record for (order_id, layer) exists with the digest of the file and false
\* otherwise, and changes no destination state.
C11_Claim ==
    lastCheck.active =>
        /\ lastCheck.err = ""
        /\ lastCheck.current <=> CheckedMatch
        /\ db.C = lastCheck.before.C

\* C11 (amended): is_layer_current returns true only if a record for
\* (order_id, layer) exists and holds the digest of the file.  It returns
\* (true for such a record, false otherwise) exactly when the server is
\* reachable, the metadata table exists and the connection is not in an
\* aborted transaction; in every other state it raises.  It changes no table
\* and no metadata record, committed or seen by the connection.
C11_Current ==
    lastCheck.active =>
        /\ lastCheck.err = "" <=>
              /\ lastCheck.before.up
              /\ CheckedView.boot
              /\ ~(lastCheck.before.conn /\ lastCheck.before.txn = "aborted")
        /\ lastCheck.err = "" => (lastCheck.current <=> CheckedMatch)
        /\ lastCheck.err # "" => ~lastCheck.current
        /\ db.C = lastCheck.before.C
        /\ db.W = CheckedView

\* C11 witness: a call that returned true, for a record a load had written.
C11_Witness ==
    /\ lastCheck.active /\ lastCheck.current
    /\ CheckedRecord.exists

\* the layer names in the catalog of a container
CatalogNames(cid) == {l.name : l \in ContainerOf(cid).layers}

FoldCase(name) == [i \in 1..Len(name) |-> Lower(name[i])]

\* the layer a request must resolve to ({} when it must fail): the exact
\* name, else the sole layer, else the one name equal up to case
ExpectedLayers(cid, req) ==
    LET names == CatalogNames(cid)
        folded == {n \in names : FoldCase(n) = FoldCase(req)}
    IN  IF req \in names THEN {req}
        ELSE IF Cardinality(names) = 1 THEN names
        ELSE IF Cardinality(folded) = 1 THEN folded
        ELSE {}

\* the rows a load added to its table, as the connection sees them
AddedRows(ld) ==
    LET rows == db.W.tables[ld.table].rows
    IN  SubSeq(rows, Len(BaseRows(ld)) + 1, Len(rows))

\* C12: load_layer resolves the requested name to the exact catalog name,
\* else to the sole layer of the container, else to the one name equal up to
\* case; when there is none or several, the load fails with an error listing
\* every catalog name and changes nothing in the destination.
C12_Resolution ==
    (lastLoad.active /\ ContainerOf(lastLoad.cid).sqlite) =>
        LET exp == ExpectedLayers(lastLoad.cid, lastLoad.res.layer)
            listed == lastLoad.res.listed
        IN  IF exp = {}
            THEN /\ ~lastLoad.res.success
                 /\ lastLoad.res.error = "ValueError"
                 /\ {listed[i] : i \in 1..Len(listed)} = CatalogNames(lastLoad.cid)
                 /\ Len(listed) = Cardinality(CatalogNames(lastLoad.cid))
                 /\ lastLoad.log = <<>>
                 /\ db.C = lastLoad.beforeC /\ db.W = lastLoad.beforeW
            ELSE lastLoad.res.success =>
                 /\ lastLoad.res.count =
                       Len(LayerOf(ContainerOf(lastLoad.cid), CHOOSE n \in exp : TRUE).feats)
                 /\ Len(AddedRows(lastLoad)) = lastLoad.res.count
                 /\ \A i \in 1..Len(AddedRows(lastLoad)) :
                       /\ AddedRows(lastLoad)[i].layer \in exp
                       /\ AddedRows(lastLoad)[i].src = lastLoad.cid

\* C12 witness: a request that matches no catalog name of a container with
\* several layers and was loaded from the one layer equal up to case.
C12_Witness ==
    /\ lastLoad.active /\ lastLoad.res.success
    /\ lastLoad.res.layer \notin CatalogNames(lastLoad.cid)
    /\ Cardinality(CatalogNames(lastLoad.cid)) > 1
    /\ lastLoad.res.count > 0

\* whether the destination table of a load existed, as the connection saw
\* it, when the load began
Existed(ld) == ld.beforeW.boot /\ ld.beforeW.tables[ld.table].exists

\* the rows of this load: one per feature of the layer the request stands for
LoadRows(ld) == CompleteRows(ld.order, ld.cid, ld.res.layer)

\* C13: on an existing table a successful Replace load leaves exactly the
\* features of this load, a successful Append load the previous rows followed
\* by them, and a Fail load returns success = FALSE and changes no row, index
\* or metadata record; when the table does not exist a successful load of
\* any policy creates it with the features of this load.
C13_Policy ==
    lastLoad.active =>
        LET t == lastLoad.table
            now == db.C.tables[t]
        IN  /\ (lastLoad.policy = "replace" /\ lastLoad.res.success) =>
                  now.exists /\ now.rows = LoadRows(lastLoad)
            /\ (lastLoad.policy = "append" /\ Existed(lastLoad) /\ lastLoad.res.success) =>
                  now.exists /\ now.rows = lastLoad.beforeW.tables[t].rows \o LoadRows(lastLoad)
            /\ (lastLoad.policy = "fail" /\ Existed(lastLoad)) =>
                  /\ ~lastLoad.res.success
                  /\ lastLoad.log = <<>>
                  /\ db.C = lastLoad.beforeC /\ db.W = lastLoad.beforeW
            /\ (~Existed(lastLoad) /\ lastLoad.res.success) =>
                  /\ now.exists /\ now.rows = LoadRows(lastLoad)
                  /\ \E i \in 1..Len(lastLoad.log) : lastLoad.log[i].stage = "create"

\* C13 witness: a successful Append load into a table that held rows.
C13_Witness ==
    /\ lastLoad.active /\ lastLoad.res.success
    /\ lastLoad.policy = "append"
    /\ Existed(lastLoad)
    /\ lastLoad.beforeW.tables[lastLoad.table].rows # <<>>
    /\ lastLoad.res.count > 0

\* C14: there is one metadata record per (order_id, layer_name); a record is
\* written (inserted or replaced) only by a successful load of that order and
\* layer, every such load writes it, and a record is deleted only by
\* cleanup_stale_tables, in a step that leaves its destination table dropped.
C14_Lifecycle ==
    [][ /\ \A k \in MetaKeys :
            LET old == db.C.meta[k]
                new == db'.C.meta[k]
            IN  /\ (new.exists /\ new # old) =>
                      /\ lastLoad'.active /\ lastLoad'.res.success
                      /\ lastLoad'.order = k[1] /\ lastLoad'.res.layer = k[2]
                      /\ new = [exists |-> TRUE, hash |-> file_hash(lastLoad'.cid),
                                table |-> lastLoad'.table, count |-> lastLoad'.res.count]
                /\ (old.exists /\ ~new.exists) =>
                      /\ CleanupStaleTables
                      /\ fs[k[1]].kind # "dir"
                      /\ ~db'.C.tables[old.table].exists
        /\ (lastLoad'.active /\ lastLoad'.res.success /\ lastLoad'.order # NoOrder) =>
              /\ db'.C.meta[<<lastLoad'.order, lastLoad'.res.layer>>].exists
              /\ db'.C.meta[<<lastLoad'.order, lastLoad'.res.layer>>].hash
                    = file_hash(lastLoad'.cid)
      ]_vars

\* C14 witness: a successful reload that replaced the record of another file.
C14_Witness ==
    /\ lastLoad.active /\ lastLoad.res.success /\ lastLoad.order # NoOrder
    /\ lastLoad.beforeC.meta[<<lastLoad.order, lastLoad.res.layer>>].exists
    /\ lastLoad.beforeC.meta[<<lastLoad.order, lastLoad.res.layer>>].hash
          # db.C.meta[<<lastLoad.order, lastLoad.res.layer>>].hash

\* ------------------------------------------------------------ detection
DataTypes == {"vector_gpkg", "lidar_laz", "raster_dem", "raster_ortho"}

\* the entries of the well-formed archives of a directory, by position
EntriesAt(dir) ==
    UNION {{<<a, e>> : e \in 1..Len(dir.archives[a].entries)} :
              a \in {j \in 1..Len(dir.archives) : dir.archives[j].zip}}

\* the type an entry counts for: its extension's type, a .tif or .tiff
\* counting as ortho-raster under an ortho-raster hint
LabelOf(ext, hint) ==
    IF EXTENSION_MAP(ext) = "raster_dem" /\ hint = "raster_ortho" THEN "raster_ortho"
    ELSE EXTENSION_MAP(ext)

\* the number of entries of a directory that count for a type
Tally(dir, t) ==
    Cardinality({p \in EntriesAt(dir) :
        LabelOf(dir.archives[p[1]].entries[p[2]].ext,
                product_hint_of(dir.metadata, "")) = t})

\* C15: when archives are read and hold a recognised entry, the type returned
\* is one with the highest number of entries, a product hint only making the
\* .tif entries count as ortho-raster and changing no other type's tally.
C15_Claim ==
    (/\ val.done
     /\ arg.kind = "detect"
     /\ ~val.out.raised
     /\ val.out.data_type # "lidar_index"
     /\ \E t \in DataTypes : Tally(arg.dir, t) > 0)
    => /\ val.out.data_type \in DataTypes
       /\ \A t \in DataTypes : Tally(arg.dir, t) <= Tally(arg.dir, val.out.data_type)

\* some index file of the directory lists a .laz tile
HasTiles(dir) == \E i \in 1..Len(dir.index) : dir.index[i] = "tiles"

\* the directory without its index files
WithoutIndex(dir) == Dir(dir.metadata, <<>>, dir.archives)

\* C16 as stated: the index type is returned only for a directory without
\* archives; with an archive present the result is the one the archives
\* give, whatever the index files hold.
C16_Claim ==
    (val.done /\ arg.kind = "detect" /\ ~val.out.raised)
    => /\ val.out.data_type = "lidar_index" => arg.dir.archives = <<>>
       /\ arg.dir.archives # <<>> => val.out = detect_order_type(WithoutIndex(arg.dir))

\* C16: the index files are read first.  The index type is returned exactly
\* when one of them lists a tile, with or without archives, and then no
\* file and no layer is reported; otherwise the result is the one the
\* archives give.
C16_IndexFirst ==
    (val.done /\ arg.kind = "detect" /\ ~val.out.raised)
    => IF HasTiles(arg.dir)
       THEN /\ val.out.data_type = "lidar_index"
            /\ val.out.files = <<>>
            /\ val.out.layers = <<>>
       ELSE /\ val.out.data_type # "lidar_index"
            /\ Len(val.out.files) = Cardinality(EntriesAt(arg.dir))
            /\ val.out = detect_order_type(WithoutIndex(arg.dir))

\* a directory with a tile index and a well-formed archive of GeoPackage
\* entries, detected as the index type
C16_Witness ==
    /\ val.done
    /\ arg.kind = "detect"
    /\ HasTiles(arg.dir)
    /\ \E p \in EntriesAt(arg.dir) : arg.dir.archives[p[1]].entries[p[2]].ext = ".gpkg"
    /\ ~val.out.raised
    /\ val.out.data_type = "lidar_index"

\* the entry at a position of the directory
EntryAtPos(dir, p) == dir.archives[p[1]].entries[p[2]]

\* the layer names of the well-formed GeoPackage entries of the well-formed
\* archives of a directory
GoodLayerNames(dir) ==
    UNION {{l.name : l \in ContainerOf(EntryAtPos(dir, p).cid).layers} :
              p \in {q \in EntriesAt(dir) :
                        /\ EntryAtPos(dir, q).ext = ".gpkg"
                        /\ EntryAtPos(dir, q).crc
                        /\ ContainerOf(EntryAtPos(dir, q).cid).sqlite}}

\* C17: with archives read (no tile index), a corrupt archive or an entry
\* that is no readable GeoPackage does not fail detection, every entry of
\* every well-formed archive is listed, and for a vector order the layer
\* names reported are those of all the well-formed GeoPackage entries, those
\* sharing an archive with a bad entry included.
C17_Claim ==
    (/\ val.done
     /\ arg.kind = "detect"
     /\ \A i \in 1..Len(arg.dir.index) : arg.dir.index[i] = "notjson")
    => /\ ~val.out.raised
       /\ {[zip_name |-> arg.dir.archives[p[1]].name, inner_path |-> EntryAtPos(arg.dir, p).path] :
              p \in EntriesAt(arg.dir)}
          = {[zip_name |-> val.out.files[i].zip_name, inner_path |-> val.out.files[i].inner_path] :
              i \in 1..Len(val.out.files)}
       /\ val.out.data_type = "vector_gpkg"
            => {val.out.layers[i] : i \in 1..Len(val.out.layers)} = GoodLayerNames(arg.dir)

\* ---------------------------------------------------------- GPB header
\* a byte string without its first k bytes
Drop(b, k) == [i \in 1..(IF Len(b) > k THEN Len(b) - k ELSE 0) |-> b[i + k]]

HasMagic(b) == Len(b) >= 2 /\ b[1] = 71 /\ b[2] = 80

\* bits 1-3 of byte 3
EnvelopeKind(b) == (b[4] \div 2) % 8

\* the envelope table of the claim
TableSize(kind) == <<0, 32, 48, 48, 64>>[kind + 1]

\* C18 as stated: for a byte string of any length, the input comes back
\* unchanged without the magic bytes, and without its first 8 + size bytes
\* with them.
C18_Claim ==
    (val.done /\ arg.kind = "gpb")
    => /\ val.out.err = ""
       /\ ~HasMagic(arg.bytes) => val.out.out = arg.bytes
       /\ (HasMagic(arg.bytes) /\ Len(arg.bytes) >= 4 /\ EnvelopeKind(arg.bytes) \in 0..4)
            => val.out.out = Drop(arg.bytes, 8 + TableSize(EnvelopeKind(arg.bytes)))

\* C18: a byte string shorter than 8 bytes is refused with ValueError, with
\* or without the magic bytes.  One of 8 bytes or more comes back unchanged
\* without the magic bytes, and without its first 8 + size bytes with them,
\* size from the table for kinds 0..4 and 0 for kinds 5..7.
C18_Strip ==
    (val.done /\ arg.kind = "gpb")
    => IF Len(arg.bytes) < 8 THEN val.out.err = "ValueError"
       ELSE /\ val.out.err = ""
            /\ ~HasMagic(arg.bytes) => val.out.out = arg.bytes
            /\ HasMagic(arg.bytes)
                 => val.out.out =
                      Drop(arg.bytes,
                           8 + IF EnvelopeKind(arg.bytes) \in 0..4
                               THEN TableSize(EnvelopeKind(arg.bytes)) ELSE 0)

\* a GPB with the 64-byte envelope and a payload after it, stripped
C18_Witness ==
    /\ val.done
    /\ arg.kind = "gpb"
    /\ HasMagic(arg.bytes)
    /\ Len(arg.bytes) > 72
    /\ EnvelopeKind(arg.bytes) = 4
    /\ val.out.err = ""
    /\ Len(val.out.out) = Len(arg.bytes) - 72
    /\ val.out.out[1] = arg.bytes[73]

\* ----------------------------------------------------------- WKB parser
\* C19: a byte string that is no complete well-formed WKB of a supported
\* type (cut short, a byte order that is neither 0 nor 1 in the outer or an
\* inner header, a type code the parser does not hold, a sub-geometry of
\* another type than its container's) makes wkb_to_geojson raise ValueError;
\* no geometry is returned for it.
C19_Claim ==
    (val.done /\ arg.kind = "wkb" /\ arg.defect # "none")
    => val.out.err = "ValueError"

\* C20: a MultiPoint, MultiLineString, MultiPolygon or GeometryCollection
\* with n sub-geometries, encoded one sub-geometry after the other, is
\* decoded to exactly those n sub-geometries in order.
C20_Claim ==
    (/\ val.done
     /\ arg.kind = "wkb"
     /\ arg.defect = "none"
     /\ arg.geom.type \in {"MultiPoint", "MultiLineString", "MultiPolygon",
                           "GeometryCollection"})
    => /\ val.out.err = ""
       /\ val.out.geom = arg.geom

\* ------------------------------------------------------ reading a layer
\* the stored geometry value of the row a feature was made of
StoredOf(f) == arg.layer.rows[f.fid].gpb

\* C21 as stated: every feature yielded by read_layer carries the stored
\* geometry value unchanged, header and envelope included.
C21_Claim ==
    (val.done /\ arg.kind = "read")
    => \A i \in 1..Len(val.out.feats) :
          val.out.feats[i].geometry = StoredOf(val.out.feats[i])

\* C21: every feature yielded by read_layer carries the stored geometry
\* value passed through gpb_to_wkb: None for NULL or an empty value, the
\* value without its 8 header bytes and its envelope when it starts with the
\* magic bytes, the value unchanged otherwise; no feature is yielded for a
\* stored value of 1 to 7 bytes, where the iteration ends with ValueError.
C21_Decoded ==
    (val.done /\ arg.kind = "read")
    => /\ \A i \in 1..Len(val.out.feats) :
            \E b \in {StoredOf(val.out.feats[i]).bytes} :
               IF StoredOf(val.out.feats[i]).null \/ b = <<>>
               THEN val.out.feats[i].geometry = Null
               ELSE /\ Len(b) >= 8
                    /\ ~val.out.feats[i].geometry.null
                    /\ val.out.feats[i].geometry.bytes =
                         IF HasMagic(b)
                         THEN Drop(b, 8 + IF EnvelopeKind(b) \in 0..4
                                          THEN TableSize(EnvelopeKind(b)) ELSE 0)
                         ELSE b
       /\ val.out.err = "ValueError"
            => /\ arg.offset + Len(val.out.feats) < Len(arg.layer.rows)
               /\ Len(arg.layer.rows[arg.offset + Len(val.out.feats) + 1].gpb.bytes) \in 1..7

\* a stored value with the magic bytes and a 32-byte envelope, yielded as
\* the two bytes that follow the envelope
C21_Witness ==
    /\ val.done
    /\ arg.kind = "read"
    /\ val.out.err = ""
    /\ \E i \in 1..Len(val.out.feats) :
          /\ HasMagic(StoredOf(val.out.feats[i]).bytes)
          /\ Len(StoredOf(val.out.feats[i]).bytes) = 42
          /\ val.out.feats[i].geometry = Blob(<<1, 2>>)

\* the positions offset+1 .. offset+limit of the layer (to its end when limit
\* is absent)
Window(n, limit, offset) ==
    {p \in 1..n : p > offset /\ (limit.given => p <= offset + limit.n)}

\* C27: read_layer succeeds for every layer, with any number of attribute
\* columns, and every combination of present or absent limit and offset, and
\* yields exactly the features at the storage positions offset+1 ..
\* offset+limit, in storage order.
C27_Claim ==
    (/\ val.done
     /\ arg.kind = "read"
     /\ \A p \in 1..Len(arg.layer.rows) : Len(arg.layer.rows[p].gpb.bytes) \notin 1..7)
    => /\ val.out.err = ""
       /\ {val.out.feats[i].fid : i \in 1..Len(val.out.feats)}
            = Window(Len(arg.layer.rows), arg.limit, arg.offset)
       /\ \A i \in 1..Len(val.out.feats) :
            i > 1 => val.out.feats[i - 1].fid < val.out.feats[i].fid

\* ------------------------------------------------------ batched reading
\* the features of the catalog layer a load reads (none when the container
\* cannot be read or the requested name resolves to no layer)
SourceFeats(ld) ==
    IF ExpectedCount(ld.cid, ld.res.layer) = 0 THEN <<>>
    ELSE LayerOf(ContainerOf(ld.cid),
                 resolve_layer(list_layers(ContainerOf(ld.cid)), ld.res.layer).layer).feats

RECURSIVE Flatten(_)
Flatten(batches) ==
    IF batches = <<>> THEN <<>> ELSE Head(batches) \o Flatten(Tail(batches))

\* C26: for every batch size n and the layer a load reads,
\* read_layer_as_wkb_list yields non-empty batches, all but possibly the last of exactly n features, whose
\* concatenation is the feature sequence of read_layer in storage order (when
\* read_layer raises: its features up to the last full batch, and every batch
\* full); load_layer inserts them in that order, and on success reports a
\* feature_count equal to the number of features of the layer.
C26_Batches ==
    lastLoad.active =>
        \E feats \in {SourceFeats(lastLoad)} : \A n \in BatchSizes :
        \E b \in {read_layer_as_wkb_list(feats, n)}, y \in {read_layer(feats)} :
           /\ \A i \in 1..Len(b.batches) :
                 /\ b.batches[i] # <<>>
                 /\ Len(b.batches[i]) <= n
                 /\ (i < Len(b.batches) \/ y.raised) => Len(b.batches[i]) = n
           /\ b.raised = y.raised
           /\ \E m \in 0..y.yielded :
                 /\ Flatten(b.batches) = [k \in 1..m |-> k]
                 /\ IF y.raised THEN y.yielded - m < n ELSE m = Len(feats)
           /\ lastLoad.res.success =>
                 /\ lastLoad.res.count = Len(feats)
                 /\ db.C.tables[lastLoad.table].rows
                       = BaseRows(lastLoad) \o LoadRows(lastLoad)
                 /\ \A k \in 1..Len(feats) :
                       db.C.tables[lastLoad.table].rows[Len(BaseRows(lastLoad)) + k].k = k

\* C26 witness: a successful load of a layer of three features, which
\* batches of two yield as two features and then the third alone.
C26_Witness ==
    /\ lastLoad.active /\ lastLoad.res.success
    /\ lastLoad.res.count = 3
    /\ read_layer_as_wkb_list(SourceFeats(lastLoad), 2).batches = << <<1, 2>>, <<3>> >>
    /\ Len(db.C.tables[lastLoad.table].rows) >= 3

\* ------------------------------------------------------------ bootstrap
\* the data a connection state shows to the loader's next statement
ViewOf(b) == IF b.conn THEN b.W ELSE b.C

IsPrefix(r1, r2) == Len(r1) <= Len(r2) /\ SubSeq(r2, 1, Len(r1)) = r1

\* C22 as stated: from any destination state whose server can be reached,
\* init_database ends with extension, schema and metadata table present, and
\* on a destination that has them already it changes nothing.
C22_Claim ==
    (val.done /\ val.op = "init_database" /\ (val.before.up \/ val.before.conn))
    => /\ val.err = ""
       /\ db.C.boot
       /\ val.before.C.boot => db.C = val.before.C

\* C22: init_database returns exactly when the server can be reached and the
\* connection's transaction is not aborted, and raises without any change
\* otherwise.  When it returns, extension, schema and metadata table are
\* present, every table, row, index and metadata record the connection saw is
\* as before, committed (rows an earlier failed load left uncommitted
\* included), no committed table or record is lost, and running it again
\* changes nothing.
C22_Bootstrap ==
    (val.done /\ val.op = "init_database")
    => /\ val.err = "" <=> /\ val.before.up \/ val.before.conn
                           /\ val.before.txn # "aborted"
       /\ val.err = "" =>
             /\ db.C = [ViewOf(val.before) EXCEPT !.boot = TRUE, !.schema = TRUE]
             /\ db.W = db.C /\ db.txn = "idle"
             /\ init_database(Ctx(db)).err = "" /\ init_database(Ctx(db)).db = db
             /\ (val.before.C.boot /\ ViewOf(val.before) = val.before.C)
                   => db.C = val.before.C
             /\ \A t \in TableNames :
                   val.before.C.tables[t].exists =>
                      /\ db.C.tables[t].exists
                      /\ IsPrefix(val.before.C.tables[t].rows, db.C.tables[t].rows)
             /\ \A k \in MetaKeys :
                   val.before.C.meta[k].exists => db.C.meta[k] = val.before.C.meta[k]
       /\ val.err # "" => db.C = val.before.C /\ db.W = val.before.W

\* C22 witness: init_database run again on a bootstrapped destination that
\* holds a loaded table and its metadata record, all of them kept.
C22_Witness ==
    /\ val.done /\ val.op = "init_database" /\ val.err = ""
    /\ val.before.C.boot
    /\ \E k \in MetaKeys :
          /\ val.before.C.meta[k].exists
          /\ val.before.C.tables[val.before.C.meta[k].table].rows # <<>>
    /\ db.C = val.before.C

\* -------------------------------------------------------- introspection
Introspections == {"list_tables", "get_table_stats", "get_metadata"}

\* C23: after list_tables, get_table_stats or get_metadata, returned or
\* raised, the committed destination and the data the connection sees (the
\* tables, their rows, their indexes, the metadata records) are as before
\* the call.
C23_Frame ==
    (val.done /\ val.op \in Introspections)
    => /\ db.C = val.before.C
       /\ ViewOf(db) = ViewOf(val.before)
       /\ db.up = val.before.up

\* C23 witness: get_table_stats failed on a destination that holds a loaded
\* table and its metadata record.
C23_Witness ==
    /\ val.done /\ val.op = "get_table_stats" /\ val.err # ""
    /\ \E k \in MetaKeys :
          /\ db.C.meta[k].exists
          /\ db.C.tables[db.C.meta[k].table].rows # <<>>
          /\ db.C.tables[db.C.meta[k].table].index

\* ------------------------------------------------------------- worklist
HasSuffix(stem, suffix) ==
    /\ Len(stem) >= Len(suffix)
    /\ \A i \in 1..Len(suffix) : stem[Len(stem) - Len(suffix) + i] = suffix[i]

\* the name a file stem stands for: the stem without a trailing _sverige or
\* _sweden
DerivedName(stem) ==
    IF HasSuffix(stem, <<"_", "s", "v", "e", "r", "i", "g", "e">>)
    THEN [i \in 1..(Len(stem) - 8) |-> stem[i]]
    ELSE IF HasSuffix(stem, <<"_", "s", "w", "e", "d", "e", "n">>)
    THEN [i \in 1..(Len(stem) - 7) |-> stem[i]]
    ELSE stem

\* the triples the claim expects for an order directory and an allowlist
\* (<<>> for none): one per catalog layer of every readable .gpkg entry
ExpectedTriples(dir, layers) ==
    UNION {{[zip_name |-> dir.archives[p[1]].name,
             inner_path |-> EntryAtPos(dir, p).path,
             layer_name |-> l] :
               l \in {n \in CatalogNames(EntryAtPos(dir, p).cid) :
                        layers = <<>> \/ InSeq(n, layers)}} :
           p \in {q \in EntriesAt(dir) :
                    /\ EntryAtPos(dir, q).ext = ".gpkg"
                    /\ EntryAtPos(dir, q).crc
                    /\ layers # <<>> => InSeq(DerivedName(EntryAtPos(dir, q).stem), layers)}}

\* C25: after the first pass the worklist holds exactly one triple (archive,
\* entry, layer) for every catalog layer of every .gpkg entry of the order,
\* restricted, under an allowlist L, to the entries whose filename-derived
\* name is in L and to the layers in L; the layer of every triple is a catalog
\* layer of its entry, never the name derived from the file name.
C25_Worklist ==
    pc = "pass2" =>
        /\ {call.worklist[i] : i \in 1..Len(call.worklist)}
              = ExpectedTriples(fs[call.order], call.layers)
        /\ \A i \in 1..Len(call.worklist), j \in 1..Len(call.worklist) :
              call.worklist[i] = call.worklist[j] => i = j
        /\ \A i \in 1..Len(call.worklist) :
              call.worklist[i].layer_name
                \in CatalogNames(EntryAt(fs[call.order], call.worklist[i].zip_name,
                                         call.worklist[i].inner_path).cid)

\* C25 witness: under the allowlist <<a>> an entry named a_sverige whose
\* container holds layer a gives the triple of layer a.
C25_Witness ==
    /\ pc = "pass2"
    /\ call.layers = <<La>>
    /\ \E i \in 1..Len(call.worklist) :
          /\ call.worklist[i].layer_name = La
          /\ EntryAt(fs[call.order], call.worklist[i].zip_name,
                     call.worklist[i].inner_path).stem = SaSverige

\* ------------------------------------------------------------- progress
\* C28: process_order calls a progress callback that was given (and that
\* returns) exactly once per worklist triple, at the head of the triple's
\* round, before the triple is extracted, hash-checked or loaded, with the
\* triple's layer, the indexes 1, 2, ..., total in turn and total the length
\* the worklist had after the first pass; a triple that is skipped as
\* current has its call as well, and no call is made during the first pass
\* or when no callback was given.
C28_Progress ==
    [][ /\ (pc = "idle" /\ pc' # "idle") => call'.progress = <<>>
        /\ (pc = "pass2" /\ call'.progress # call.progress) =>
              /\ call.callback
              /\ call'.progress
                    = Append(call.progress,
                             [layer_name |-> call.worklist[call.i + 1].layer_name,
                              current |-> Len(call.progress) + 1,
                              total |-> Len(call.worklist)])
              /\ Len(call.progress) = call.i
              /\ call'.i = call.i /\ call'.results = call.results
              /\ call'.visits = call.visits
              /\ db' = db /\ tmp' = tmp /\ pc' = pc
        /\ (pc = "pass2" /\ call'.i # call.i) =>
              /\ call'.progress = call.progress
              /\ call.callback => Len(call.progress) = call.i + 1
              /\ ~call.callback => call.progress = <<>>
        /\ (pc = "pass2" /\ pc' = "done" /\ call.callback) =>
              /\ Len(call.progress) = Len(call.worklist)
              /\ \A j \in 1..Len(call.progress) :
                    /\ call.progress[j].current = j
                    /\ call.progress[j].total = Len(call.worklist)
                    /\ call.progress[j].layer_name = call.worklist[j].layer_name
      ]_vars

\* C28 witness: a call with a callback that skipped a current layer and
\* loaded another, two callback calls made.
C28_Witness ==
    /\ pc = "done"
    /\ call.callback
    /\ Len(call.progress) = 2
    /\ call.progress[2].current = 2 /\ call.progress[2].total = 2
    /\ \E j \in 1..2, k \in 1..2 : call.visits[j].current /\ call.visits[k].loaded

\* ------------------------------------------------------------- cleanup
\* the data a destination's connection sees before and after a cleanup call
CleanupBefore == ViewOf(val.before)
CleanupAfter == ViewOf(db)

\* C29: after cleanup_stale_tables returns, every metadata record of an
\* order whose directory is present is unchanged and the destination table
\* that record names is as it was, rows included, and the returned list
\* names exactly the tables the call dropped.
C29_Claim ==
    (val.done /\ val.op = "cleanup_stale_tables" /\ val.err = "") =>
        /\ \A k \in MetaKeys :
              (fs[k[1]].kind = "dir" /\ CleanupBefore.meta[k].exists) =>
                  /\ CleanupAfter.meta[k] = CleanupBefore.meta[k]
                  /\ CleanupAfter.tables[CleanupBefore.meta[k].table]
                        = CleanupBefore.tables[CleanupBefore.meta[k].table]
        /\ {val.out[i] : i \in 1..Len(val.out)}
              = {t \in TableNames : /\ CleanupBefore.tables[t].exists
                                    /\ ~CleanupAfter.tables[t].exists}

\* ------------------------------------------------------- feature counts
\* C30: after a successful load_layer that was given an order id, under any
\* conflict policy, the feature_count of the metadata record of the order
\* and layer equals the feature_count of the LoadResult and the number of
\* rows of the destination table the record names.
C30_Claim ==
    (lastLoad.active /\ lastLoad.res.success /\ lastLoad.order # NoOrder) =>
        \E k \in {<<lastLoad.order, lastLoad.res.layer>>} :
            /\ k \in MetaKeys
            /\ ViewOf(db).meta[k].exists
            /\ ViewOf(db).meta[k].count = lastLoad.res.count
            /\ ViewOf(db).meta[k].count
                  = Len(ViewOf(db).tables[ViewOf(db).meta[k].table].rows)

\* C30 restated: after a successful load_layer that was given an order id,
\* the record of the order and layer names the destination table and its
\* feature_count equals the feature_count of the LoadResult, the number of
\* features this call inserted; the table holds that many rows under Replace
\* and Fail, and under Append that many more than it held before the call.
C30_Counts ==
    (lastLoad.active /\ lastLoad.res.success /\ lastLoad.order # NoOrder) =>
        \E k \in {<<lastLoad.order, lastLoad.res.layer>>} :
            /\ k \in MetaKeys
            /\ ViewOf(db).meta[k].exists
            /\ ViewOf(db).meta[k].table = lastLoad.res.table
            /\ ViewOf(db).meta[k].count = lastLoad.res.count
            /\ lastLoad.res.count = lastLoad.expected
            /\ Len(ViewOf(db).tables[lastLoad.res.table].rows)
                  = lastLoad.res.count
                    + IF /\ lastLoad.policy = "append"
                         /\ lastLoad.beforeW.tables[lastLoad.res.table].exists
                      THEN Len(lastLoad.beforeW.tables[lastLoad.res.table].rows)
                      ELSE 0

\* C30 witness: a successful Append with an order id onto a table that held
\* rows, which now holds more rows than the record counts.
C30_Witness ==
    /\ lastLoad.active /\ lastLoad.res.success /\ lastLoad.order # NoOrder
    /\ lastLoad.policy = "append"
    /\ lastLoad.res.count > 0
    /\ Len(lastLoad.beforeW.tables[lastLoad.res.table].rows) > 0
    /\ Len(ViewOf(db).tables[lastLoad.res.table].rows) > lastLoad.res.count

\* ---------------------------------------------------------- incremental
\* the worklist process_order would build for an order directory
WorklistOf(dir) ==
    first_pass(dir, find_gpkg_files(detect_order_type(dir).files, <<>>), <<>>,
               [worklist |-> <<>>, results |-> <<>>, leaked |-> 0]).worklist

\* an order some layer of which has no record with the digest of its
\* container in the metadata a call started from
OrderChanged(o, dir, meta) ==
    \E i \in 1..Len(WorklistOf(dir)) :
        \E t \in {WorklistOf(dir)[i]} :
            \/ ~meta[<<o, t.layer_name>>].exists
            \/ meta[<<o, t.layer_name>>].hash
                  # file_hash(EntryAt(dir, t.zip_name, t.inner_path).cid)

\* C24: among the publishable order directories, process_incremental calls
\* process_order for exactly those that changed since they were processed,
\* judged by hash: an order all of whose layers have a record with the digest
\* of the current container is skipped, and an order with a layer that has no
\* record or whose container content changed is processed.
C24_Claim ==
    (val.done /\ val.op = "process_incremental" /\ val.err = "") =>
        \A o \in OrderIds :
            (/\ fs[o].kind = "dir"
             /\ is_publishable(detect_order_type(fs[o]).data_type)) =>
                (InSeq(o, val.out.called)
                   <=> OrderChanged(o, fs[o], ViewOf(val.before).meta))

====
